---- MODULE Spec2Model ----
(***************************************************************************)
(* A model of analyze.js of myStoicTracker: the price lookup and the       *)
(* asset conversion, the normalisation of income records to BTC, the       *)
(* daily / weekly / monthly aggregation, the valuation of deposits and     *)
(* withdrawals in main, and the reconstruction of the equity series.       *)
(*                                                                         *)
(* Numbers.  A JavaScript number is modelled as an exact rational <<n, d>> *)
(* in lowest terms with d > 0; d = 0 stands for the values that are not    *)
(* finite: <<0, 0>> is undefined / null / NaN (all falsy, all turning      *)
(* arithmetic into NaN), <<1, 0>> is Infinity and <<-1, 0>> is -Infinity.  *)
(* Floating-point rounding is not modelled.  Amounts (BTC, USDT, coins)    *)
(* are counted in units of 1e-12, so that toFixed(12) rounds to a whole    *)
(* number of units and toFixed(10) to a multiple of 100 units; prices and  *)
(* rates are plain ratios.                                                 *)
(*                                                                         *)
(* Time.  Timestamps are counted in hours (3 600 000 ms) since the epoch,  *)
(* so that they fit the model checker's integers; every timestamp of the   *)
(* model is a whole hour.                                                  *)
(***************************************************************************)
EXTENDS Integers, Sequences, FiniteSets, TLC

VARIABLES
    pc,                 \* position in the program segment being run
    NOW,                \* const NOW = Date.now() (hours)
    tzOffset,           \* offset of the report's local time from UTC (hours)
    priceMap,           \* fetchAllPrices(): symbol -> spot price
    dailyPrices,        \* getDailyBtcPrices(): sequence of {time, close}
    qTs,                \* argument ts of the btcPriceAt call under study
    qAsset,             \* argument asset of the toBtc call under study
    qAmount,            \* argument amount of the toBtc call under study
    result,             \* value returned by the call under study
    income,             \* getFuturesIncome(): sequence of income records
    incomeTimeline,     \* buildIncomeTimeline(...): daily buckets
    weeklyPnl,          \* buildWeeklyPnl(...): weekly buckets
    monthlyPnl,         \* buildMonthlyPnl(...): monthly buckets
    prevRun,            \* what an earlier execution on the same inputs produced
    deposits,           \* getDeposits(): sequence of {coin, amount, insertTime}
    depositDetails,     \* main: depositDetails
    totalDepositsBtc,   \* main: totalDepositsBtc
    withdrawals,        \* getWithdrawals(): sequence of {coin, amount}
    withdrawalDetails,  \* main: withdrawalDetails
    totalWithdrawalsBtc,\* main: totalWithdrawalsBtc
    totalBalanceBtc,    \* main: totalBalanceBtc
    equityCurve,        \* genEquityCurve: startEquity and points
    RAW,                \* the data object written into the report's script
    growth,             \* initGrowth: startEquity and equityByDay
    forecast,           \* main: computeForecastData(...)
    riskMetrics,        \* generateHTML: computeRiskMetrics(...)
    drawdownChart,      \* generateHTML: the points of genDrawdownChart(...)
    startDate,          \* the report's startDate field, as a timestamp (hours)
    fcMonths,           \* the report's fcMonths field, as parseInt reads it
    cards,              \* the figures masterRecalc puts on the cards
    fc,                 \* window._fc, set by masterRecalc
    scenarios,          \* what recalcForecast puts into the scenarios element
    maxAttempts,        \* withRetry: maxAttempts
    attempt,            \* withRetry: attempt
    lastErr,            \* withRetry: lastErr
    retryPc,            \* withRetry: where the call stands
    retryValue,         \* withRetry: the value returned or the error thrown
    fnCalls,            \* the outcomes of the calls of fn so far, in order
    sleeps,             \* the arguments of the calls of sleep so far, in order
    server,             \* the income records the server holds, in its order
    startTime,          \* getFuturesIncome: startTime
    requested,          \* the startTime of every request sent so far, in order
    promise,            \* fapiRequest: state and value of the promise returned
    req,                \* fapiRequest: how far the request and its response are
    res,                \* fapiRequest: the chunks of the response still to come
    timer,              \* fapiRequest: the timeout t
    body,               \* fapiRequest: d, the text received so far
    settles,            \* fapiRequest: the calls of resolve and reject so far
    playing,            \* initGrowth: playing
    animId,             \* initGrowth: animId
    timers,             \* the tick timers pending, each with the idx of its closure
    nextTimer,          \* the id the next setTimeout returns
    slider,             \* the value of growthSlider, the day index on display
    playLabel           \* the text of the growthPlay button

envVars == <<NOW, tzOffset, priceMap, dailyPrices>>

callVars == <<qTs, qAsset, qAmount, result>>

pnlVars == <<income, incomeTimeline, weeklyPnl, monthlyPnl>>

capitalVars == <<deposits, depositDetails, totalDepositsBtc,
                 withdrawals, withdrawalDetails, totalWithdrawalsBtc>>

reportVars == <<totalBalanceBtc, equityCurve, RAW, growth>>

analysisVars == <<forecast, riskMetrics, drawdownChart>>

pageVars == <<startDate, fcMonths, cards, fc, scenarios>>

retryVars == <<maxAttempts, attempt, lastErr, retryPc, retryValue, fnCalls, sleeps>>

fetchVars == <<server, startTime, requested>>

requestVars == <<promise, req, res, timer, body, settles>>

playerVars == <<playing, animId, timers, nextTimer, slider, playLabel>>

ioVars == <<retryVars, fetchVars, requestVars, playerVars>>

vars == <<pc, envVars, callVars, pnlVars, prevRun, capitalVars, reportVars,
          analysisVars, pageVars, ioVars>>

----------------------------------------------------------------------------
(* JavaScript numbers as rationals *)

Abs(x) == IF x < 0 THEN -x ELSE x

Sign(x) == IF x < 0 THEN -1 ELSE IF x > 0 THEN 1 ELSE 0

RECURSIVE Gcd(_, _)
Gcd(a, b) == IF b = 0 THEN a ELSE Gcd(b, a % b)

Norm(n, d) ==
    IF d = 0 THEN <<Sign(n), 0>>
    ELSE LET g == Gcd(Abs(n), Abs(d))
             s == IF d < 0 THEN -1 ELSE 1
         IN  <<(s * n) \div g, (s * d) \div g>>

R(n) == <<n, 1>>

Zero == <<0, 1>>

\* undefined, null and NaN
NaN == <<0, 0>>

IsFinite(a) == a[2] # 0

\* the truth value JavaScript gives a number (or undefined): 0, NaN and
\* undefined are falsy
Truthy(a) == a[1] # 0

\* a || b
Or(a, b) == IF Truthy(a) THEN a ELSE b

RNeg(a) == <<-a[1], a[2]>>

RAdd(a, b) ==
    IF IsFinite(a) /\ IsFinite(b)
    THEN LET g == Gcd(a[2], b[2])
         IN  Norm(a[1] * (b[2] \div g) + b[1] * (a[2] \div g), (a[2] \div g) * b[2])
    ELSE IF a = NaN \/ b = NaN THEN NaN
    ELSE IF ~IsFinite(a) /\ ~IsFinite(b) THEN (IF a = b THEN a ELSE NaN)
    ELSE IF IsFinite(a) THEN b ELSE a

RSub(a, b) == RAdd(a, RNeg(b))

RMul(a, b) ==
    IF IsFinite(a) /\ IsFinite(b)
    THEN LET g == Gcd(Abs(a[1]), b[2])
             h == Gcd(Abs(b[1]), a[2])
         IN  Norm((a[1] \div g) * (b[1] \div h), (a[2] \div h) * (b[2] \div g))
    ELSE IF a = NaN \/ b = NaN THEN NaN
    ELSE <<Sign(a[1]) * Sign(b[1]), 0>>

RDiv(a, b) ==
    IF IsFinite(a) /\ IsFinite(b)
    THEN IF b[1] = 0 THEN <<Sign(a[1]), 0>>
         ELSE RMul(a, <<Sign(b[1]) * b[2], Abs(b[1])>>)
    ELSE IF a = NaN \/ b = NaN THEN NaN
    ELSE IF IsFinite(a) THEN Zero
    ELSE IF IsFinite(b) THEN <<a[1] * (IF b[1] < 0 THEN -1 ELSE 1), 0>>
    ELSE NaN

\* a < b
RLt(a, b) ==
    IF a = NaN \/ b = NaN THEN FALSE
    ELSE IF ~IsFinite(a) THEN a[1] < 0 /\ a # b
    ELSE IF ~IsFinite(b) THEN b[1] > 0
    ELSE LET g == Gcd(a[2], b[2])
         IN  a[1] * (b[2] \div g) < b[1] * (a[2] \div g)

RLe(a, b) == a # NaN /\ b # NaN /\ ~RLt(b, a)

RAbs(a) == <<Abs(a[1]), a[2]>>

----------------------------------------------------------------------------
(* Square roots.  Math.sqrt of a rational that is not a perfect square is   *)
(* kept exact: a value that went through Math.sqrt is a record             *)
(* [a, b, r] standing for a + b * sqrt(r), with a, b, r rationals; b = 0   *)
(* and r = 0 when the value is rational (or not finite, then a says which),*)
(* and r is never a perfect square when b # 0.                             *)

\* the largest k with k * k <= n, by Newton's iteration from x down
RECURSIVE ISqrtFrom(_, _)
ISqrtFrom(n, x) ==
    LET y == (x + n \div x) \div 2
    IN  IF y >= x THEN x ELSE ISqrtFrom(n, y)

ISqrt(n) == IF n = 0 THEN 0 ELSE ISqrtFrom(n, n)

IsSquare(n) == ISqrt(n) * ISqrt(n) = n

SRat(a) == [a |-> a, b |-> Zero, r |-> Zero]

SZero == SRat(Zero)

SIsRat(x) == x.b = Zero

SIsFinite(x) == IsFinite(x.a)

\* the canonical record of a + b * sqrt(r), r >= 0
Canon(a, b, r) ==
    IF ~IsFinite(a) \/ b = Zero \/ r = Zero THEN SRat(a)
    ELSE IF IsSquare(r[1]) /\ IsSquare(r[2])
         THEN SRat(RAdd(a, RMul(b, <<ISqrt(r[1]), ISqrt(r[2])>>)))
    ELSE [a |-> a, b |-> b, r |-> r]

\* Math.sqrt(x)
Sqrt(x) ==
    IF x = NaN \/ RLt(x, Zero) THEN SRat(NaN)
    ELSE IF ~IsFinite(x) THEN SRat(x)
    ELSE Canon(Zero, R(1), x)

\* the radicand two values share
SRad(x, y) == IF SIsRat(x) THEN y.r ELSE x.r

SNeg(x) == [a |-> RNeg(x.a), b |-> RNeg(x.b), r |-> x.r]

\* x + y, for values that are rational or share a radicand
SAdd(x, y) ==
    CASE SIsRat(x) \/ SIsRat(y) \/ x.r = y.r ->
        Canon(RAdd(x.a, y.a), RAdd(x.b, y.b), SRad(x, y))

SSub(x, y) == SAdd(x, SNeg(y))

\* x * y, for values that are rational or share a radicand, and for two
\* pure roots
SMul(x, y) ==
    CASE SIsRat(x) \/ SIsRat(y) \/ x.r = y.r ->
        Canon(RAdd(RMul(x.a, y.a), RMul(RMul(x.b, y.b), SRad(x, y))),
              RAdd(RMul(x.a, y.b), RMul(x.b, y.a)), SRad(x, y))
      [] x.a = Zero /\ y.a = Zero /\ x.r # y.r ->
        Canon(Zero, RMul(x.b, y.b), RMul(x.r, y.r))

\* -1, 0 or 1 as x is negative, zero or positive; 0 for NaN
SSign(x) ==
    IF SIsRat(x) THEN Sign(x.a[1])
    ELSE IF x.a = Zero THEN Sign(x.b[1])
    ELSE IF Sign(x.a[1]) = Sign(x.b[1]) THEN Sign(x.a[1])
    ELSE LET a2 == RMul(x.a, x.a)
             b2r == RMul(RMul(x.b, x.b), x.r)
         IN  IF RLt(b2r, a2) THEN Sign(x.a[1]) ELSE Sign(x.b[1])

\* x / y
SDiv(x, y) ==
    IF SIsRat(y) THEN
        IF SIsRat(x) THEN SRat(RDiv(x.a, y.a))
        ELSE IF y.a = Zero THEN SRat(<<SSign(x), 0>>)
        ELSE IF ~IsFinite(y.a) THEN SRat(RDiv(R(SSign(x)), y.a))
        ELSE Canon(RDiv(x.a, y.a), RDiv(x.b, y.a), x.r)
    ELSE LET norm == RSub(RMul(y.a, y.a), RMul(RMul(y.b, y.b), y.r))
         IN  SMul(x, [a |-> RDiv(y.a, norm), b |-> RNeg(RDiv(y.b, norm)), r |-> y.r])

\* x < y
SLt(x, y) == x.a # NaN /\ y.a # NaN /\ x # y /\ SSign(SSub(x, y)) < 0

\* x > y
SGt(x, y) == SLt(y, x)

----------------------------------------------------------------------------
(* btcPriceAt *)

\* d < minD, the test that replaces the best sample
CloserOrTied(d, minD) == d <= minD

Closer(d, minD) == d < minD

\* the for loop of btcPriceAt from sample i on; the result is the best sample
RECURSIVE ScanPrices(_, _, _, _, _)
ScanPrices(ts, prices, i, best, minD) ==
    IF i > Len(prices) THEN best
    ELSE LET p == prices[i]
             d == Abs(ts - p.time)
         IN  IF Closer(d, minD) THEN ScanPrices(ts, prices, i + 1, p, d)
             ELSE ScanPrices(ts, prices, i + 1, best, minD)

btcPriceAt(ts, prices) ==
    IF Len(prices) = 0 THEN NaN
    ELSE ScanPrices(ts, prices, 1, prices[1], Abs(ts - prices[1].time)).close

----------------------------------------------------------------------------
(* toBtc *)

stables == {"USDT", "USDC", "BUSD", "FDUSD", "DAI"}

\* the key `${asset}${quote}` of the price map
Symbol(asset, quote) == <<asset, quote>>

\* priceMap[symbol]: undefined for a symbol the map does not hold
Rate(pm, asset, quote) ==
    IF Symbol(asset, quote) \in DOMAIN pm THEN pm[Symbol(asset, quote)] ELSE NaN

\* if (priceMap[`${asset}BTC`]) without the fall-through for a zero rate
HasRatePresent(rate) == rate # NaN

\* if (priceMap[...]): the rate is there and is not 0
HasRate(rate) == Truthy(rate)

toBtc(asset, amount, pm) ==
    IF amount = Zero THEN Zero
    ELSE IF asset = "BTC" THEN amount
    ELSE IF asset \in stables
        THEN (IF HasRate(Rate(pm, "BTC", "USDT"))
              THEN RDiv(amount, Rate(pm, "BTC", "USDT")) ELSE Zero)
    ELSE IF HasRate(Rate(pm, asset, "BTC"))
        THEN RMul(amount, Rate(pm, asset, "BTC"))
    ELSE IF HasRate(Rate(pm, asset, "USDT")) /\ HasRate(Rate(pm, "BTC", "USDT"))
        THEN RDiv(RMul(amount, Rate(pm, asset, "USDT")), Rate(pm, "BTC", "USDT"))
    ELSE Zero

----------------------------------------------------------------------------
(* Time *)

PERIOD_DAYS == 180

\* 86400000 ms, in hours
DayMs == 24

PERIOD_MS == PERIOD_DAYS * DayMs

START_TIME == NOW - PERIOD_MS

\* const btcPrice = priceMap['BTCUSDT'] of main
btcPrice == Rate(priceMap, "BTC", "USDT")

\* the civil date <<year, month, day>> of a day number counted from
\* 1970-01-01, month 1..12 (the proleptic Gregorian calendar of Date)
CivilFromDays(days) ==
    LET z == days + 719468
        era == z \div 146097
        doe == z - era * 146097
        yoe == (doe - doe \div 1460 + doe \div 36524 - doe \div 146096) \div 365
        y == yoe + era * 400
        doy == doe - (365 * yoe + yoe \div 4 - yoe \div 100)
        mp == (5 * doy + 2) \div 153
        d == doy - (153 * mp + 2) \div 5 + 1
        m == IF mp < 10 THEN mp + 3 ELSE mp - 9
    IN  <<IF m <= 2 THEN y + 1 ELSE y, m, d>>

\* the day number of a civil date
DaysFromCivil(year, m, d) ==
    LET y == IF m <= 2 THEN year - 1 ELSE year
        era == y \div 400
        yoe == y - era * 400
        mp == IF m > 2 THEN m - 3 ELSE m + 9
        doy == (153 * mp + 2) \div 5 + d - 1
        doe == yoe * 365 + yoe \div 4 - yoe \div 100 + doy
    IN  era * 146097 + doe - 719468

\* new Date(t) read through getFullYear() and getMonth() + 1, in local time
LocalYearMonth(t) ==
    LET c == CivilFromDays((t + tzOffset) \div DayMs) IN <<c[1], c[2]>>

\* new Date(year, month - 1, 1).getTime(): local midnight of the first
MonthStart(ym) == DaysFromCivil(ym[1], ym[2], 1) * DayMs - tzOffset

----------------------------------------------------------------------------
(* Helpers for the arrays and the keyed objects of the aggregation *)

\* x put into a sequence sorted by time, behind the elements that do not
\* come after it (Array.prototype.sort is stable)
RECURSIVE InsertByTime(_, _)
InsertByTime(s, x) ==
    IF Len(s) = 0 THEN <<x>>
    ELSE IF s[Len(s)].time <= x.time THEN Append(s, x)
    ELSE Append(InsertByTime(SubSeq(s, 1, Len(s) - 1), x), s[Len(s)])

\* .sort((a, b) => a.time - b.time)
RECURSIVE SortByTime(_)
SortByTime(s) ==
    IF Len(s) = 0 THEN <<>>
    ELSE InsertByTime(SortByTime(SubSeq(s, 1, Len(s) - 1)), s[Len(s)])

\* the array left as it is: Object.values in insertion order
Unsorted(s) == s

\* the position in a keyed object (its entries in insertion order) of the
\* entry with this time, 0 when there is none
RECURSIVE IndexOfTime(_, _, _)
IndexOfTime(buckets, time, i) ==
    IF i > Len(buckets) THEN 0
    ELSE IF buckets[i].time = time THEN i
    ELSE IndexOfTime(buckets, time, i + 1)

----------------------------------------------------------------------------
(* The normalisation of one income record and the three aggregations *)

PnlTypes == {"REALIZED_PNL", "FUNDING_FEE", "COMMISSION"}

\* the filter written as a deny-list that names transfers only
PnlFilterDenyTransfer(inc) == inc.incomeType # "TRANSFER"

\* the filter of buildIncomeTimeline
PnlFilterTimeline(inc) ==
    inc.incomeType = "REALIZED_PNL" \/ inc.incomeType = "FUNDING_FEE"
        \/ inc.incomeType = "COMMISSION"

\* the negation of the continue test of buildWeeklyPnl
PnlFilterWeekly(inc) ==
    ~(inc.incomeType # "REALIZED_PNL" /\ inc.incomeType # "FUNDING_FEE"
        /\ inc.incomeType # "COMMISSION")

\* the filter, funding fees forgotten
PnlFilterMonthlyNoFunding(inc) ==
    ~(inc.incomeType # "REALIZED_PNL" /\ inc.incomeType # "COMMISSION")

\* the negation of the continue test of buildMonthlyPnl
PnlFilterMonthly(inc) ==
    ~(inc.incomeType # "REALIZED_PNL" /\ inc.incomeType # "FUNDING_FEE"
        /\ inc.incomeType # "COMMISSION")

\* .filter(i => ...) of buildIncomeTimeline, from record i on
RECURSIVE FilterPnl(_, _)
FilterPnl(s, i) ==
    IF i > Len(s) THEN <<>>
    ELSE IF PnlFilterTimeline(s[i]) THEN <<s[i]>> \o FilterPnl(s, i + 1)
    ELSE FilterPnl(s, i + 1)

\* const usdt = parseFloat(inc.income)
IncomeUsdt(inc) == inc.income

\* const bp = btcPriceAt(t, dailyPrices) || btcPrice
IncomePrice(inc, prices, spot) == Or(btcPriceAt(inc.time, prices), spot)

\* bp ? usdt / bp : 0
IncomeBtc(inc, prices, spot) ==
    LET bp == IncomePrice(inc, prices, spot)
    IN  IF Truthy(bp) THEN RDiv(IncomeUsdt(inc), bp) ELSE Zero

\* the day key anchored at the start of the period instead of the epoch
DayKeyAnchored(t) == START_TIME + ((t - START_TIME) \div DayMs) * DayMs

\* Math.floor(t / 86400000) * 86400000
DayKey(t) == (t \div DayMs) * DayMs

\* const weekMs = 7 * 86400000
weekMs == 7 * DayMs

\* START_TIME + Math.floor((t - START_TIME) / weekMs) * weekMs
WeekStart(t) == START_TIME + ((t - START_TIME) \div weekMs) * weekMs

\* the for loop of buildIncomeTimeline over the sorted records
RECURSIVE FoldDays(_, _, _, _, _)
FoldDays(sorted, i, dayBuckets, prices, spot) ==
    IF i > Len(sorted) THEN dayBuckets
    ELSE LET inc == sorted[i]
             dayKey == DayKey(inc.time)
             btcVal == IncomeBtc(inc, prices, spot)
             at == IndexOfTime(dayBuckets, dayKey, 1)
             with == IF at = 0
                     THEN Append(dayBuckets,
                                 [time |-> dayKey, dailyBtc |-> Zero, cumulativeBtc |-> Zero])
                     ELSE dayBuckets
             k == IF at = 0 THEN Len(with) ELSE at
         IN  FoldDays(sorted, i + 1,
                      [with EXCEPT ![k].dailyBtc = RAdd(@, btcVal)], prices, spot)

\* the second pass, storing the sum before the day is added
RECURSIVE CumulateBefore(_, _, _)
CumulateBefore(days, i, cumBtc) ==
    IF i > Len(days) THEN days
    ELSE CumulateBefore([days EXCEPT ![i].cumulativeBtc = cumBtc], i + 1,
                        RAdd(cumBtc, days[i].dailyBtc))

\* for (const day of days) { cumBtc += day.dailyBtc; day.cumulativeBtc = cumBtc; }
RECURSIVE Cumulate(_, _, _)
Cumulate(days, i, cumBtc) ==
    IF i > Len(days) THEN days
    ELSE LET c == RAdd(cumBtc, days[i].dailyBtc)
         IN  Cumulate([days EXCEPT ![i].cumulativeBtc = c], i + 1, c)

\* the array the filter and the sort of buildIncomeTimeline are done on, when
\* it is the argument itself
FilteredInPlace(inc) == FilterPnl(inc, 1)

\* the argument of buildIncomeTimeline after the call: [...income] is a copy,
\* the filter and the sort leave income as it was
Spread(inc) == inc

buildIncomeTimeline(inc, prices, spot) ==
    LET sorted == SortByTime(FilterPnl(inc, 1))
    IN  IF Len(sorted) = 0 THEN <<>>
        ELSE Cumulate(SortByTime(FoldDays(sorted, 1, <<>>, prices, spot)), 1, Zero)

\* the for loop of buildWeeklyPnl
RECURSIVE FoldWeeks(_, _, _, _, _)
FoldWeeks(inc, i, weeks, prices, spot) ==
    IF i > Len(inc) THEN weeks
    ELSE IF ~PnlFilterWeekly(inc[i]) THEN FoldWeeks(inc, i + 1, weeks, prices, spot)
    ELSE LET weekStart == WeekStart(inc[i].time)
             at == IndexOfTime(weeks, weekStart, 1)
             with == IF at = 0
                     THEN Append(weeks, [time |-> weekStart, pnlUsdt |-> Zero, pnlBtc |-> Zero])
                     ELSE weeks
             k == IF at = 0 THEN Len(with) ELSE at
         IN  FoldWeeks(inc, i + 1,
                       [with EXCEPT ![k].pnlUsdt = RAdd(@, IncomeUsdt(inc[i])),
                                    ![k].pnlBtc = RAdd(@, IncomeBtc(inc[i], prices, spot))],
                       prices, spot)

\* Object.values(weeks).sort((a, b) => a.time - b.time)
SortWeeks(weeks) == SortByTime(weeks)

buildWeeklyPnl(inc, prices, spot) == SortWeeks(FoldWeeks(inc, 1, <<>>, prices, spot))

\* the position of the entry with this key, 0 when there is none
RECURSIVE IndexOfKey(_, _, _)
IndexOfKey(months, key, i) ==
    IF i > Len(months) THEN 0
    ELSE IF months[i].key = key THEN i
    ELSE IndexOfKey(months, key, i + 1)

\* the for loop of buildMonthlyPnl
RECURSIVE FoldMonths(_, _, _, _, _)
FoldMonths(inc, i, months, prices, spot) ==
    IF i > Len(inc) THEN months
    ELSE IF ~PnlFilterMonthly(inc[i]) THEN FoldMonths(inc, i + 1, months, prices, spot)
    ELSE LET key == LocalYearMonth(inc[i].time)
             at == IndexOfKey(months, key, 1)
             with == IF at = 0
                     THEN Append(months, [key |-> key, time |-> MonthStart(key),
                                          pnlUsdt |-> Zero, pnlBtc |-> Zero])
                     ELSE months
             k == IF at = 0 THEN Len(with) ELSE at
         IN  FoldMonths(inc, i + 1,
                        [with EXCEPT ![k].pnlUsdt = RAdd(@, IncomeUsdt(inc[i])),
                                     ![k].pnlBtc = RAdd(@, IncomeBtc(inc[i], prices, spot))],
                        prices, spot)

buildMonthlyPnl(inc, prices, spot) == SortByTime(FoldMonths(inc, 1, <<>>, prices, spot))

----------------------------------------------------------------------------
(* Steps 3 and 4 of main: the valuation of deposits and withdrawals *)

\* const bp = btcPriceAt(d.insertTime, dailyPrices) || btcPrice
DepositPrice(d, prices, spot) == Or(btcPriceAt(d.insertTime, prices), spot)

\* const bv = d.coin === 'BTC' ? amt : amt / bp
DepositBtc(d, prices, spot) ==
    IF d.coin = "BTC" THEN d.amount ELSE RDiv(d.amount, DepositPrice(d, prices, spot))

\* { ...d, btcValue: bv, btcPriceAtTime: bp }
DepositDetail(d, prices, spot) ==
    [coin |-> d.coin, amount |-> d.amount, insertTime |-> d.insertTime,
     btcValue |-> DepositBtc(d, prices, spot),
     btcPriceAtTime |-> DepositPrice(d, prices, spot)]

\* const bv = toBtc(w.coin, parseFloat(w.amount), priceMap)
WithdrawalBtc(w, pm) == toBtc(w.coin, w.amount, pm)

\* { ...w, btcValue: bv }
WithdrawalDetail(w, pm) ==
    [coin |-> w.coin, amount |-> w.amount, btcValue |-> WithdrawalBtc(w, pm)]

----------------------------------------------------------------------------
(* The equity series: genEquityCurve, the RAW object of the report, and     *)
(* initGrowth in the browser                                               *)

\* the nearest whole number, a half rounded away from 0
RoundHalfAway(a) == Sign(a[1]) * ((2 * Abs(a[1]) + a[2]) \div (2 * a[2]))

RECURSIVE Pow10(_)
Pow10(k) == IF k = 0 THEN 1 ELSE 10 * Pow10(k - 1)

\* the number read back from x.toFixed(digits), digits <= 12; amounts are
\* counted in units of 1e-12
ToFixed(a, digits) ==
    IF ~IsFinite(a) THEN a
    ELSE LET step == Pow10(12 - digits)
         IN  R(step * RoundHalfAway(RDiv(a, R(step))))

\* timeline[0].cumulativeBtc taken for the total
EquityStartFirst(timeline, totalBtc) == RSub(totalBtc, timeline[1].cumulativeBtc)

\* const startEquity = totalBtc - timeline[timeline.length - 1].cumulativeBtc
EquityStart(timeline, totalBtc) == RSub(totalBtc, timeline[Len(timeline)].cumulativeBtc)

\* for (const d of timeline) { equity += d.dailyBtc; points.push(...) }
RECURSIVE EquityPoints(_, _, _)
EquityPoints(timeline, i, equity) ==
    IF i > Len(timeline) THEN <<>>
    ELSE LET e == RAdd(equity, timeline[i].dailyBtc)
         IN  <<[time |-> timeline[i].time, equity |-> e]>> \o EquityPoints(timeline, i + 1, e)

genEquityCurve(timeline, totalBtc) ==
    IF Len(timeline) < 2 THEN [startEquity |-> NaN, points |-> <<>>]
    ELSE [startEquity |-> EquityStart(timeline, totalBtc),
          points |-> EquityPoints(timeline, 1, EquityStart(timeline, totalBtc))]

\* const RAW = { currentBtc: ..., dailyPnl: [...], deposits: [...], monthlyPnl: [...] }
\* as the browser reads it
RawData(timeline, details, monthly, totalBtc) ==
    [currentBtc |-> ToFixed(totalBtc, 10),
     dailyPnl |-> [i \in 1..Len(timeline) |->
                      [t |-> timeline[i].time, b |-> ToFixed(timeline[i].dailyBtc, 12)]],
     deposits |-> [i \in 1..Len(details) |->
                      [t |-> details[i].insertTime, btc |-> ToFixed(details[i].btcValue, 12),
                       coin |-> details[i].coin, amt |-> ToFixed(details[i].amount, 12)]],
     monthlyPnl |-> [i \in 1..Len(monthly) |->
                      [k |-> monthly[i].key, t |-> monthly[i].time,
                       b |-> ToFixed(monthly[i].pnlBtc, 12),
                       u |-> ToFixed(monthly[i].pnlUsdt, 4)]]]

\* daily.reduce((s, d) => s + d.b, 0)
RECURSIVE TotalPnl(_, _)
TotalPnl(daily, n) == IF n = 0 THEN Zero ELSE RAdd(TotalPnl(daily, n - 1), daily[n].b)

\* for (let i = 0; i < daily.length; i++) { e += daily[i].b; equityByDay.push(e); }
RECURSIVE EquityByDay(_, _, _)
EquityByDay(daily, i, e) ==
    IF i > Len(daily) THEN <<>>
    ELSE <<RAdd(e, daily[i].b)>> \o EquityByDay(daily, i + 1, RAdd(e, daily[i].b))

initGrowth(raw) ==
    IF Len(raw.dailyPnl) < 2 THEN [startEquity |-> NaN, equityByDay |-> <<>>]
    ELSE LET startEquity == RSub(raw.currentBtc, TotalPnl(raw.dailyPnl, Len(raw.dailyPnl)))
         IN  [startEquity |-> startEquity,
              equityByDay |-> <<startEquity>> \o EquityByDay(raw.dailyPnl, 1, startEquity)]

----------------------------------------------------------------------------
(* computeRiskMetrics *)

\* the object returned for a timeline of fewer than 2 buckets
NeutralRisk ==
    [sharpe |-> SZero, maxDrawdownBtc |-> Zero, maxDrawdownPct |-> Zero,
     bestDay |-> Zero, worstDay |-> Zero, bestDayPct |-> Zero, worstDayPct |-> Zero,
     winRate |-> Zero, winDays |-> 0, totalDays |-> 0, profitFactor |-> Zero]

\* for (...) { pct = equityStart > 0 ? dailyBtc / equityStart : 0; push; equityStart += dailyBtc }
RECURSIVE DailyReturnPct(_, _, _)
DailyReturnPct(timeline, i, equityStart) ==
    IF i > Len(timeline) THEN <<>>
    ELSE LET pct == IF RLt(Zero, equityStart) THEN RDiv(timeline[i].dailyBtc, equityStart)
                    ELSE Zero
         IN  <<pct>> \o DailyReturnPct(timeline, i + 1, RAdd(equityStart, timeline[i].dailyBtc))

\* values.reduce((a, b) => a + b, 0) over the first n values
RECURSIVE SumValues(_, _)
SumValues(values, n) == IF n = 0 THEN Zero ELSE RAdd(SumValues(values, n - 1), values[n])

\* values.reduce((s, v) => s + (v - mean) ** 2, 0) over the first n values
RECURSIVE SumSquares(_, _, _)
SumSquares(values, mean, n) ==
    IF n = 0 THEN Zero
    ELSE RAdd(SumSquares(values, mean, n - 1),
              RMul(RSub(values[n], mean), RSub(values[n], mean)))

\* stdDev > 0 ? (mean / stdDev) * Math.sqrt(365) : 0, the test left out
SharpeUnguarded(mean, stdDev) == SMul(SDiv(SRat(mean), stdDev), Sqrt(R(365)))

\* stdDev > 0 ? (mean / stdDev) * Math.sqrt(365) : 0
Sharpe(mean, stdDev) ==
    IF SGt(stdDev, SZero) THEN SMul(SDiv(SRat(mean), stdDev), Sqrt(R(365))) ELSE SZero

\* the drawdown loop from bucket i on; the result is the last peak and the
\* deepest drawdown
RECURSIVE DrawdownScan(_, _, _, _, _)
DrawdownScan(timeline, i, equity, peak, maxDDbtc) ==
    IF i > Len(timeline) THEN [peak |-> peak, maxDDbtc |-> maxDDbtc]
    ELSE LET e == RAdd(equity, timeline[i].dailyBtc)
             p == IF RLt(peak, e) THEN e ELSE peak
             dd == RSub(p, e)
         IN  DrawdownScan(timeline, i + 1, e, p, IF RLt(maxDDbtc, dd) THEN dd ELSE maxDDbtc)

\* the best day loop from bucket i on
RECURSIVE BestScan(_, _, _, _, _)
BestScan(timeline, pcts, i, bestDay, bestDayPct) ==
    IF i > Len(timeline) THEN [day |-> bestDay, pct |-> bestDayPct]
    ELSE IF RLt(bestDay, timeline[i].dailyBtc)
         THEN BestScan(timeline, pcts, i + 1, timeline[i].dailyBtc, pcts[i])
    ELSE BestScan(timeline, pcts, i + 1, bestDay, bestDayPct)

\* the worst day loop from bucket i on
RECURSIVE WorstScan(_, _, _, _, _)
WorstScan(timeline, pcts, i, worstDay, worstDayPct) ==
    IF i > Len(timeline) THEN [day |-> worstDay, pct |-> worstDayPct]
    ELSE IF RLt(timeline[i].dailyBtc, worstDay)
         THEN WorstScan(timeline, pcts, i + 1, timeline[i].dailyBtc, pcts[i])
    ELSE WorstScan(timeline, pcts, i + 1, worstDay, worstDayPct)

\* bestDay === -Infinity ? 0 : bestDay, and the like
Unless(a, sentinel) == IF a = sentinel THEN Zero ELSE a

\* dailyReturns.filter(r => r > 0)
WinDays(timeline) == {i \in 1..Len(timeline) : RLt(Zero, timeline[i].dailyBtc)}

\* dailyReturns.filter(r => r < 0)
LossDays(timeline) == {i \in 1..Len(timeline) : RLt(timeline[i].dailyBtc, Zero)}

\* days.reduce((s, v) => s + v, 0) over the buckets of days up to bucket n
RECURSIVE SumDays(_, _, _)
SumDays(timeline, days, n) ==
    IF n = 0 THEN Zero
    ELSE IF n \in days THEN RAdd(SumDays(timeline, days, n - 1), timeline[n].dailyBtc)
    ELSE SumDays(timeline, days, n - 1)

\* grossLoss > 0 ? grossProfit / grossLoss : grossProfit > 0 ? 999 : 0, the
\* sentinel left out
ProfitFactorNoSentinel(grossProfit, grossLoss) ==
    IF RLt(Zero, grossLoss) THEN RDiv(grossProfit, grossLoss) ELSE Zero

\* grossLoss > 0 ? grossProfit / grossLoss : grossProfit > 0 ? 999 : 0
ProfitFactor(grossProfit, grossLoss) ==
    IF RLt(Zero, grossLoss) THEN RDiv(grossProfit, grossLoss)
    ELSE IF RLt(Zero, grossProfit) THEN R(999) ELSE Zero

computeRiskMetrics(timeline, totalBtc) ==
    IF Len(timeline) < 2 THEN NeutralRisk
    ELSE LET n == Len(timeline)
             startEquity == EquityStart(timeline, totalBtc)
             dailyReturnPct == DailyReturnPct(timeline, 1, startEquity)
             mean == RDiv(SumValues(dailyReturnPct, n), R(n))
             variance == RDiv(SumSquares(dailyReturnPct, mean, n), R(n))
             stdDev == Sqrt(variance)
             scan == DrawdownScan(timeline, 1, startEquity, Zero, Zero)
             best == BestScan(timeline, dailyReturnPct, 1, <<-1, 0>>, <<-1, 0>>)
             worst == WorstScan(timeline, dailyReturnPct, 1, <<1, 0>>, <<1, 0>>)
             grossProfit == SumDays(timeline, WinDays(timeline), n)
             grossLoss == RAbs(SumDays(timeline, LossDays(timeline), n))
         IN  [sharpe |-> Sharpe(mean, stdDev),
              maxDrawdownBtc |-> scan.maxDDbtc,
              maxDrawdownPct |-> IF RLt(Zero, scan.peak)
                                 THEN RMul(RDiv(scan.maxDDbtc, scan.peak), R(100))
                                 ELSE Zero,
              bestDay |-> Unless(best.day, <<-1, 0>>),
              worstDay |-> Unless(worst.day, <<1, 0>>),
              bestDayPct |-> Unless(best.pct, <<-1, 0>>),
              worstDayPct |-> Unless(worst.pct, <<1, 0>>),
              winRate |-> RDiv(R(Cardinality(WinDays(timeline))), R(n)),
              winDays |-> Cardinality(WinDays(timeline)),
              totalDays |-> n,
              profitFactor |-> ProfitFactor(grossProfit, grossLoss)]

----------------------------------------------------------------------------
(* linearRegression and computeForecastData *)

\* the sums of the regression loop over points[0..n-1]: sx, sy, sxx, sxy
RECURSIVE RegSums(_, _)
RegSums(points, n) ==
    IF n = 0 THEN [sx |-> Zero, sy |-> Zero, sxx |-> Zero, sxy |-> Zero]
    ELSE LET s == RegSums(points, n - 1)
             i == R(n - 1)
         IN  [sx |-> RAdd(s.sx, i), sy |-> RAdd(s.sy, points[n]),
              sxx |-> RAdd(s.sxx, RMul(i, i)), sxy |-> RAdd(s.sxy, RMul(i, points[n]))]

\* sx taken for n in the numerator
RegSlopeSwapped(n, s) ==
    RDiv(RSub(RMul(s.sx, s.sxy), RMul(s.sx, s.sy)),
         Or(RSub(RMul(R(n), s.sxx), RMul(s.sx, s.sx)), R(1)))

\* (n * sxy - sx * sy) / (n * sxx - sx * sx || 1)
RegSlope(n, s) ==
    RDiv(RSub(RMul(R(n), s.sxy), RMul(s.sx, s.sy)),
         Or(RSub(RMul(R(n), s.sxx), RMul(s.sx, s.sx)), R(1)))

\* ssRes over points[0..n-1]
RECURSIVE SsRes(_, _, _, _)
SsRes(points, intercept, slope, n) ==
    IF n = 0 THEN Zero
    ELSE LET pred == RAdd(intercept, RMul(slope, R(n - 1)))
         IN  RAdd(SsRes(points, intercept, slope, n - 1),
                  RMul(RSub(points[n], pred), RSub(points[n], pred)))

linearRegression(points) ==
    LET n == Len(points)
    IN  IF n < 2 THEN [slope |-> Zero, intercept |-> Zero, r2 |-> Zero]
        ELSE LET s == RegSums(points, n)
                 slope == RegSlope(n, s)
                 intercept == RDiv(RSub(s.sy, RMul(slope, s.sx)), R(n))
                 mean == RDiv(s.sy, R(n))
                 ssRes == SsRes(points, intercept, slope, n)
                 ssTot == SumSquares(points, mean, n)
             IN  [slope |-> slope, intercept |-> intercept,
                  r2 |-> IF RLt(Zero, ssTot) THEN RSub(R(1), RDiv(ssRes, ssTot)) ELSE Zero]

\* reg.slope > 0 ? 'improving' : 'declining'
TrendDirectionNoFlat(slope) == IF RLt(Zero, slope) THEN "improving" ELSE "declining"

\* reg.slope > 0 ? 'improving' : reg.slope < 0 ? 'declining' : 'flat'
TrendDirection(slope) ==
    IF RLt(Zero, slope) THEN "improving"
    ELSE IF RLt(slope, Zero) THEN "declining" ELSE "flat"

\* values.length, without the || 1
LengthRaw(values) == Len(values)

\* values.length || 1
LengthOr1(values) == IF Len(values) = 0 THEN 1 ELSE Len(values)

computeForecastData(monthly, totalBtc, netExternalFlowBtc) ==
    LET pnlValues == [i \in 1..Len(monthly) |-> monthly[i].pnlBtc]
        n == Len(pnlValues)
        avgMonthlyPnlBtc == RDiv(SumValues(pnlValues, n), R(LengthOr1(pnlValues)))
        variance == RDiv(SumSquares(pnlValues, avgMonthlyPnlBtc, n), R(LengthOr1(pnlValues)))
        stdDev == Sqrt(variance)
        reg == linearRegression(pnlValues)
    IN  [avgMonthlyPnlBtc |-> avgMonthlyPnlBtc,
         stdDev |-> stdDev,
         avgMonthlyRoi |-> IF RLt(Zero, netExternalFlowBtc)
                           THEN RDiv(avgMonthlyPnlBtc, netExternalFlowBtc) ELSE Zero,
         monthlyRoiStdDev |-> IF RLt(Zero, netExternalFlowBtc)
                              THEN SDiv(stdDev, SRat(netExternalFlowBtc)) ELSE SZero,
         trend |-> reg,
         trendDirection |-> TrendDirection(reg.slope),
         currentBtc |-> totalBtc,
         monthlyData |-> pnlValues]

----------------------------------------------------------------------------
(* genDrawdownChart, and the script of the report: masterRecalc and        *)
(* recalcForecast                                                          *)

\* for (const d of timeline) { equity += d.dailyBtc; if (equity > peak) peak = equity;
\*                             points.push({ time, dd: equity - peak }) }
RECURSIVE DrawdownPoints(_, _, _, _)
DrawdownPoints(timeline, i, equity, peak) ==
    IF i > Len(timeline) THEN <<>>
    ELSE LET e == RAdd(equity, timeline[i].dailyBtc)
             p == IF RLt(peak, e) THEN e ELSE peak
         IN  <<[time |-> timeline[i].time, dd |-> RSub(e, p)]>>
             \o DrawdownPoints(timeline, i + 1, e, p)

\* the points genDrawdownChart draws
genDrawdownChart(timeline, totalBtc) ==
    IF Len(timeline) < 2 THEN <<>>
    ELSE DrawdownPoints(timeline, 1, EquityStart(timeline, totalBtc),
                        EquityStart(timeline, totalBtc))

\* items.filter(x => x.t >= startMs)
RECURSIVE FromStart(_, _, _)
FromStart(items, startMs, i) ==
    IF i > Len(items) THEN <<>>
    ELSE (IF items[i].t >= startMs THEN <<items[i]>> ELSE <<>>)
         \o FromStart(items, startMs, i + 1)

\* pts.length < 2 ? 0 : (n*sxy - sx*sy) / (n*sxx - sx*sx || 1)
linreg(pts) ==
    IF Len(pts) < 2 THEN [slope |-> Zero]
    ELSE [slope |-> RegSlope(Len(pts), RegSums(pts, Len(pts)))]

\* 0.00001 BTC, in units of 1e-12
TrendThreshold == R(10000000)

\* reg.slope > 0.00001 ? 'improving' : reg.slope < -0.00001 ? 'declining' : 'flat'
TrendDir(slope) ==
    IF RLt(TrendThreshold, slope) THEN "improving"
    ELSE IF RLt(slope, RNeg(TrendThreshold)) THEN "declining" ELSE "flat"

\* masterRecalc up to the assignment of window._fc: the figures of the cards
\* and window._fc
masterRecalc(raw, startMs) ==
    LET filteredDaily == FromStart(raw.dailyPnl, startMs, 1)
        totalPnlBtc == TotalPnl(filteredDaily, Len(filteredDaily))
        filteredDeposits == FromStart(raw.deposits, startMs, 1)
        depBtc == [i \in 1..Len(filteredDeposits) |-> filteredDeposits[i].btc]
        totalDepBtc == SumValues(depBtc, Len(depBtc))
        robotPnl == RSub(raw.currentBtc, totalDepBtc)
        filteredMonthly == FromStart(raw.monthlyPnl, startMs, 1)
        mVals == [i \in 1..Len(filteredMonthly) |-> filteredMonthly[i].b]
        n == Len(mVals)
        avgMoPnl == IF n # 0 THEN RDiv(SumValues(mVals, n), R(n)) ELSE Zero
        variance == IF n # 0 THEN RDiv(SumSquares(mVals, avgMoPnl, n), R(n)) ELSE Zero
        stdDev == Sqrt(variance)
        avgMoRoi == IF RLt(Zero, totalDepBtc) THEN RDiv(avgMoPnl, totalDepBtc) ELSE Zero
    IN  [cards |-> [totalPnlBtc |-> totalPnlBtc, totalDepBtc |-> totalDepBtc,
                    robotPnl |-> robotPnl,
                    roi |-> IF RLt(Zero, totalDepBtc) THEN RDiv(robotPnl, totalDepBtc)
                            ELSE Zero,
                    avgMoRoi |-> avgMoRoi,
                    trendDir |-> TrendDir(linreg(mVals).slope),
                    incCount |-> Len(filteredDaily)],
         fc |-> [currentBtc |-> raw.currentBtc, avgMonthlyPnl |-> avgMoPnl,
                 stdDev |-> stdDev, avgMonthlyRoi |-> avgMoRoi]]

\* Math.max(1, parseInt(field) || 12)
Months(field) == IF Or(field, R(12))[1] < 1 THEN 1 ELSE Or(field, R(12))[1]

\* let linBtc = fc.currentBtc; for (let m = 0; m < months; m++) linBtc += sc.linPnl
RECURSIVE LinBtc(_, _, _)
LinBtc(currentBtc, linPnl, months) ==
    IF months = 0 THEN SRat(currentBtc)
    ELSE SAdd(LinBtc(currentBtc, linPnl, months - 1), linPnl)

\* let compBtc = fc.currentBtc; for (let m = 0; m < months; m++) compBtc *= (1 + sc.compRoi)
RECURSIVE CompBtc(_, _, _)
CompBtc(currentBtc, compRoi, months) ==
    IF months = 0 THEN SRat(currentBtc)
    ELSE SMul(CompBtc(currentBtc, compRoi, months - 1), SAdd(SRat(R(1)), compRoi))

\* fc.currentBtc > 0 ? x / fc.currentBtc : 0, the test left out
PerBalanceUnguarded(x, currentBtc) == SDiv(x, SRat(currentBtc))

\* fc.currentBtc > 0 ? x / fc.currentBtc : 0
PerBalance(x, currentBtc) ==
    IF RLt(Zero, currentBtc) THEN SDiv(x, SRat(currentBtc)) ELSE SZero

\* the pessimistic scenario two deviations below the average
ScenarioPnlWide(f, sign) ==
    IF sign < 0 THEN SSub(SRat(f.avgMonthlyPnl), SAdd(f.stdDev, f.stdDev))
    ELSE IF sign > 0 THEN SAdd(SRat(f.avgMonthlyPnl), f.stdDev)
    ELSE SRat(f.avgMonthlyPnl)

\* linPnl of a scenario: fc.avgMonthlyPnl + fc.stdDev, fc.avgMonthlyPnl,
\* fc.avgMonthlyPnl - fc.stdDev for sign 1, 0, -1
ScenarioPnl(f, sign) ==
    IF sign < 0 THEN SSub(SRat(f.avgMonthlyPnl), f.stdDev)
    ELSE IF sign > 0 THEN SAdd(SRat(f.avgMonthlyPnl), f.stdDev)
    ELSE SRat(f.avgMonthlyPnl)

\* compRoi of an entry of the scenarios array: moRoi + moRoiSd, moRoi,
\* moRoi - moRoiSd for sign 1, 0, -1
CompRoi(moRoi, moRoiSd, sign) ==
    IF sign < 0 THEN SSub(moRoi, moRoiSd)
    ELSE IF sign > 0 THEN SAdd(moRoi, moRoiSd)
    ELSE moRoi

\* compRoi of a scenario, from moRoi and moRoiSd of window._fc
ScenarioRoi(f, sign) ==
    CompRoi(PerBalance(SRat(f.avgMonthlyPnl), f.currentBtc),
            PerBalance(f.stdDev, f.currentBtc), sign)

\* what the loop body shows of one scenario once linBtc and compBtc are known;
\* totalRoi is the body's compRoi, (compBtc - fc.currentBtc) / fc.currentBtc
ScenarioRow(currentBtc, name, linPnl, compRoi, linBtc, compBtc) ==
    [name |-> name, linPnl |-> linPnl, compRoi |-> compRoi,
     linBtc |-> linBtc, compBtc |-> compBtc,
     totalRoi |-> PerBalance(SSub(compBtc, SRat(currentBtc)), currentBtc)]

\* the loop body of recalcForecast for one entry of the scenarios array
ScenarioLoop(currentBtc, name, linPnl, compRoi, months) ==
    ScenarioRow(currentBtc, name, linPnl, compRoi,
                LinBtc(currentBtc, linPnl, months), CompBtc(currentBtc, compRoi, months))

\* the figures in BTC of one scenario of recalcForecast
Scenario(f, name, sign, months) ==
    ScenarioLoop(f.currentBtc, name, ScenarioPnl(f, sign), ScenarioRoi(f, sign), months)

\* the names of the scenarios array, in its order
ScenarioNames == <<"Optimistic", "Average", "Pessimistic">>

\* the scenarios recalcForecast shows, for the months field as parseInt reads
\* it; the entries add 1, 0 and -1 deviations
recalcForecast(f, field) ==
    [i \in 1..3 |-> Scenario(f, ScenarioNames[i], 2 - i, Months(field))]

----------------------------------------------------------------------------
(* withRetry *)

\* undefined, where an error can stand
NoError == [message |-> "undefined"]

REQUEST_RETRIES == 3

\* in milliseconds
RATE_LIMIT_BACKOFF_MS == 65000

\* the result of one call of fn: a value, or an error thrown
Returned(value) == [ok |-> TRUE, value |-> value]

Threw(message) == [ok |-> FALSE, err |-> [message |-> message]]

\* the error messages of the model that /too many requests|rate limit|429/i matches
RateLimitMessages ==
    {"Too many requests", "Rate limit exceeded", "Request failed with status code 429"}

\* /too many requests|rate limit|429/i.test(String(err && err.message))
IsRateLimit(err) == err.message \in RateLimitMessages

RECURSIVE Pow2(_)
Pow2(k) == IF k = 0 THEN 1 ELSE 2 * Pow2(k - 1)

\* the wait that doubles from two seconds on
BackoffFromTwo(err, n) ==
    IF IsRateLimit(err) THEN RATE_LIMIT_BACKOFF_MS ELSE 1000 * Pow2(n)

\* isRateLimit ? RATE_LIMIT_BACKOFF_MS : 1000 * Math.pow(2, attempt - 1)
Backoff(err, n) ==
    IF IsRateLimit(err) THEN RATE_LIMIT_BACKOFF_MS ELSE 1000 * Pow2(n - 1)

\* the wait after every failure, the last one too
SleepsAlways(n, max) == TRUE

\* if (attempt < maxAttempts)
SleepsAfter(n, max) == n < max

\* withRetry(fn, max) up to its first await: attempt = 1, and fn is called
\* unless the loop does not run at all, when lastErr, undefined, is thrown
WithRetry(max) ==
    /\ retryPc \in {"idle", "returned", "thrown"}
    /\ maxAttempts' = max
    /\ attempt' = 1
    /\ lastErr' = NoError
    /\ fnCalls' = <<>>
    /\ sleeps' = <<>>
    /\ IF 1 <= max THEN retryPc' = "call" /\ retryValue' = NoError
       ELSE retryPc' = "thrown" /\ retryValue' = NoError

\* the promise of fn() settles with outcome o: return await fn(), or the
\* catch block and, after the last attempt, the end of the loop and the throw
FnSettles(o) ==
    /\ retryPc = "call"
    /\ fnCalls' = Append(fnCalls, o)
    /\ IF o.ok
       THEN /\ retryPc' = "returned"
            /\ retryValue' = o.value
            /\ UNCHANGED <<attempt, lastErr, sleeps>>
       ELSE /\ lastErr' = o.err
            /\ IF SleepsAfter(attempt, maxAttempts)
               THEN /\ sleeps' = Append(sleeps, Backoff(o.err, attempt))
                    /\ retryPc' = "sleep"
                    /\ UNCHANGED <<attempt, retryValue>>
               ELSE /\ attempt' = attempt + 1
                    /\ IF attempt + 1 <= maxAttempts
                       THEN retryPc' = "call" /\ UNCHANGED retryValue
                       ELSE retryPc' = "thrown" /\ retryValue' = o.err
                    /\ UNCHANGED sleeps
    /\ UNCHANGED maxAttempts

\* the sleep ends: attempt++, and fn is called again
SleepEnds ==
    /\ retryPc = "sleep"
    /\ attempt' = attempt + 1
    /\ IF attempt + 1 <= maxAttempts
       THEN retryPc' = "call" /\ UNCHANGED retryValue
       ELSE retryPc' = "thrown" /\ retryValue' = lastErr
    /\ UNCHANGED <<maxAttempts, lastErr, fnCalls, sleeps>>

----------------------------------------------------------------------------
(* getFuturesIncome *)

incomeRetries == 15

\* a response body that is an array of records
ArrayOf(items) == [isArray |-> TRUE, items |-> items]

\* a response body that is not an array
NotArray == [isArray |-> FALSE, items |-> <<>>]

\* the records GET /fapi/v1/income returns for { startTime, limit }: the
\* first limit of the records with time >= startTime, oldest first
RECURSIVE ServerPage(_, _, _, _)
ServerPage(records, from, limit, i) ==
    IF i > Len(records) \/ limit = 0 THEN <<>>
    ELSE IF records[i].time >= from
         THEN <<records[i]>> \o ServerPage(records, from, limit - 1, i + 1)
         ELSE ServerPage(records, from, limit, i + 1)

\* startTime of the next request, the last timestamp asked for again
NextStartSame(lastTime) == lastTime

\* startTime = lastTime + 1
NextStart(lastTime) == lastTime + 1

\* if (!Array.isArray(batch) || !batch.length) break
BatchEnds(batch) == ~batch.isArray \/ Len(batch.items) = 0

\* if (lastTime >= NOW || batch.length < 1000) break, for pages of limit records
LastPage(batch, limit) ==
    batch.items[Len(batch.items)].time >= NOW \/ Len(batch.items) < limit

----------------------------------------------------------------------------
(* Inputs *)

\* the wall clock at program start: 2024-07-01 05:00 UTC, in hours
Now0 == 19905 * DayMs + 5

\* longest candle sequence of the btcPriceAt study
MaxPrices == 3

Day0 == 19730 * DayMs

CandleTimes == {Day0, Day0 + DayMs, Day0 + 2 * DayMs}

CandleCloses == {R(40000), R(60000)}

Candles == [time : CandleTimes, close : CandleCloses]

RECURSIVE SeqsUpTo(_, _)
SeqsUpTo(S, n) ==
    IF n = 0 THEN {<<>>}
    ELSE LET shorter == SeqsUpTo(S, n - 1)
         IN  shorter \cup {Append(s, x) : s \in {t \in shorter : Len(t) = n - 1}, x \in S}

QueryTimes == {Day0 - 5, Day0 + 12, Day0 + 13, Day0 + DayMs, Day0 + 36, Day0 + 70}

ConvAssets == {"BTC", "USDT", "DAI", "ETH"}

ConvAmounts == {Zero, R(2), R(-3)}

PriceMaps ==
    {[s \in {Symbol("BTC", "USDT"), Symbol("ETH", "BTC"), Symbol("ETH", "USDT")} |->
        CASE s = Symbol("BTC", "USDT") -> b
          [] s = Symbol("ETH", "BTC") -> e
          [] OTHER -> u] :
        b \in {NaN, Zero, R(60000)}, e \in {NaN, Zero, <<1, 25>>}, u \in {NaN, Zero, R(3000)}}

----------------------------------------------------------------------------
(* Values of the variables a program segment does not use *)

IdleCall == qTs = 0 /\ qAsset = "BTC" /\ qAmount = Zero /\ result = NaN

IdlePnl == income = <<>> /\ incomeTimeline = <<>> /\ weeklyPnl = <<>> /\ monthlyPnl = <<>>

NoRun == [run |-> 0]

IdleCapital ==
    /\ deposits = <<>> /\ depositDetails = <<>> /\ totalDepositsBtc = Zero
    /\ withdrawals = <<>> /\ withdrawalDetails = <<>> /\ totalWithdrawalsBtc = Zero

NoCurve == [startEquity |-> NaN, points |-> <<>>]

NoRaw == [currentBtc |-> NaN, dailyPnl |-> <<>>, deposits |-> <<>>, monthlyPnl |-> <<>>]

NoGrowth == [startEquity |-> NaN, equityByDay |-> <<>>]

NoForecast == [run |-> 0]

NoFc == [currentBtc |-> NaN, avgMonthlyPnl |-> Zero, stdDev |-> SZero, avgMonthlyRoi |-> Zero]

NoCards == [run |-> 0]

IdleAnalysis == forecast = NoForecast /\ riskMetrics = NeutralRisk /\ drawdownChart = <<>>

IdlePage ==
    startDate = 0 /\ fcMonths = R(12) /\ cards = NoCards /\ fc = NoFc /\ scenarios = <<>>

\* no call of withRetry yet
IdleRetry ==
    /\ maxAttempts = 0 /\ attempt = 0 /\ lastErr = NoError /\ retryPc = "idle"
    /\ retryValue = NoError /\ fnCalls = <<>> /\ sleeps = <<>>

IdleFetch == server = <<>> /\ startTime = 0 /\ requested = <<>>

\* undefined, where a response body can stand
Undefined == [type |-> "undefined", hasCode |-> FALSE, code |-> 0, msg |-> "", text |-> ""]

\* no promise made yet
NoPromise == [state |-> "none", value |-> Undefined, reason |-> ""]

IdleRequest ==
    /\ promise = NoPromise /\ req = "none" /\ res = <<>> /\ timer = "none" /\ body = ""
    /\ settles = <<>>

IdlePlayer ==
    /\ playing = FALSE /\ animId = 0 /\ timers = {} /\ nextTimer = 1 /\ slider = 0
    /\ playLabel = "Play"

IdleIo == IdleRetry /\ IdleFetch /\ IdleRequest /\ IdlePlayer

IdleReport ==
    /\ totalBalanceBtc = Zero /\ equityCurve = NoCurve /\ RAW = NoRaw /\ growth = NoGrowth
    /\ IdleAnalysis /\ IdlePage

\* main has not run
IdleMain ==
    /\ NOW = Now0 /\ tzOffset = 0 /\ priceMap = <<>> /\ dailyPrices = <<>>
    /\ IdleCall /\ IdlePnl /\ prevRun = NoRun /\ IdleCapital /\ IdleReport

----------------------------------------------------------------------------
(* The btcPriceAt study: one call on any candle sequence and timestamp *)

InitPriceAt ==
    /\ pc = "priceAt"
    /\ NOW = Now0
    /\ tzOffset = 0
    /\ priceMap = <<>>
    /\ dailyPrices \in SeqsUpTo(Candles, MaxPrices)
    /\ qTs \in QueryTimes
    /\ qAsset = "BTC"
    /\ qAmount = Zero
    /\ result = NaN
    /\ IdlePnl
    /\ prevRun = NoRun
    /\ IdleCapital
    /\ IdleReport
    /\ IdleIo

CallBtcPriceAt ==
    /\ pc = "priceAt"
    /\ result' = btcPriceAt(qTs, dailyPrices)
    /\ pc' = "priceAtDone"
    /\ UNCHANGED <<envVars, qTs, qAsset, qAmount, pnlVars, prevRun, capitalVars, reportVars, analysisVars, pageVars,
                   ioVars>>

NextPriceAt == CallBtcPriceAt

SpecPriceAt == InitPriceAt /\ [][NextPriceAt]_vars

(* The toBtc study: one call on any asset, amount and price map *)

InitToBtc ==
    /\ pc = "toBtc"
    /\ NOW = Now0
    /\ tzOffset = 0
    /\ priceMap \in PriceMaps
    /\ dailyPrices = <<>>
    /\ qTs = 0
    /\ qAsset \in ConvAssets
    /\ qAmount \in ConvAmounts
    /\ result = NaN
    /\ IdlePnl
    /\ prevRun = NoRun
    /\ IdleCapital
    /\ IdleReport
    /\ IdleIo

CallToBtc ==
    /\ pc = "toBtc"
    /\ result' = toBtc(qAsset, qAmount, priceMap)
    /\ pc' = "toBtcDone"
    /\ UNCHANGED <<envVars, qTs, qAsset, qAmount, pnlVars, prevRun, capitalVars, reportVars, analysisVars, pageVars,
                   ioVars>>

NextToBtc == CallToBtc

SpecToBtc == InitToBtc /\ [][NextToBtc]_vars

----------------------------------------------------------------------------
(* Step 9 of main, "Building analytics": the three aggregations of the     *)
(* income history, on any income history, candle sequence and spot price   *)

\* longest income history of the aggregation study
MaxIncome == 3

Jan31 == 19753 * DayMs

IncomePool ==
    { [incomeType |-> "REALIZED_PNL", asset |-> "USDT", time |-> Jan31 + 3, income |-> R(3)],
      [incomeType |-> "COMMISSION", asset |-> "USDT", time |-> Jan31 + 22, income |-> R(-2)],
      [incomeType |-> "FUNDING_FEE", asset |-> "USDT", time |-> Jan31 + DayMs + 1, income |-> R(5)],
      [incomeType |-> "REALIZED_PNL", asset |-> "USDT", time |-> Jan31 + 7 * DayMs + 10, income |-> R(-7)],
      [incomeType |-> "COMMISSION", asset |-> "BTC", time |-> Jan31 + DayMs + 1, income |-> R(-2)],
      [incomeType |-> "TRANSFER", asset |-> "USDT", time |-> Jan31 + 3, income |-> R(11)],
      [incomeType |-> "WELCOME_BONUS", asset |-> "USDT", time |-> Jan31 + 4 * DayMs, income |-> R(13)] }

CandleScenarios ==
    { <<>>,
      <<[time |-> Jan31, close |-> R(4)], [time |-> Jan31 + DayMs, close |-> R(8)]>>,
      <<[time |-> Jan31, close |-> Zero], [time |-> Jan31 + 7 * DayMs, close |-> R(4)]>> }

SpotScenarios == {<<>>, [s \in {Symbol("BTC", "USDT")} |-> R(5)]}

InitPnl ==
    /\ pc = "timeline"
    /\ NOW = Now0
    /\ tzOffset \in {0, 3}
    /\ priceMap \in SpotScenarios
    /\ dailyPrices \in CandleScenarios
    /\ IdleCall
    /\ income \in SeqsUpTo(IncomePool, MaxIncome)
    /\ incomeTimeline = <<>>
    /\ weeklyPnl = <<>>
    /\ monthlyPnl = <<>>
    /\ prevRun = NoRun
    /\ IdleCapital
    /\ IdleReport
    /\ IdleIo

BuildIncomeTimeline ==
    /\ pc = "timeline"
    /\ incomeTimeline' = buildIncomeTimeline(income, dailyPrices, btcPrice)
    /\ income' = Spread(income)
    /\ pc' = "weekly"
    /\ UNCHANGED <<envVars, callVars, weeklyPnl, monthlyPnl, prevRun, capitalVars, reportVars, analysisVars, pageVars,
                   ioVars>>

BuildWeeklyPnl ==
    /\ pc = "weekly"
    /\ weeklyPnl' = buildWeeklyPnl(income, dailyPrices, btcPrice)
    /\ pc' = "monthly"
    /\ UNCHANGED <<envVars, callVars, income, incomeTimeline, monthlyPnl, prevRun, capitalVars, reportVars, analysisVars, pageVars,
                   ioVars>>

BuildMonthlyPnl ==
    /\ pc = "monthly"
    /\ monthlyPnl' = buildMonthlyPnl(income, dailyPrices, btcPrice)
    /\ pc' = "built"
    /\ UNCHANGED <<envVars, callVars, income, incomeTimeline, weeklyPnl, prevRun, capitalVars, reportVars, analysisVars, pageVars,
                   ioVars>>

NextPnl == BuildIncomeTimeline \/ BuildWeeklyPnl \/ BuildMonthlyPnl

SpecPnl == InitPnl /\ [][NextPnl]_vars

----------------------------------------------------------------------------
(* Steps 3 and 4 of main, on any deposit and withdrawal history *)

\* most deposits, and most withdrawals, of the capital-flow study
MaxFlows == 2

DepositPool ==
    { [coin |-> "BTC", amount |-> R(2), insertTime |-> Jan31 + 3],
      [coin |-> "USDT", amount |-> R(12), insertTime |-> Jan31 + 3],
      [coin |-> "ETH", amount |-> R(2), insertTime |-> Jan31 + DayMs + 1],
      [coin |-> "USDT", amount |-> R(20), insertTime |-> Jan31 + 7 * DayMs + 10] }

WithdrawalPool ==
    { [coin |-> "BTC", amount |-> R(1)],
      [coin |-> "USDT", amount |-> R(30)],
      [coin |-> "ETH", amount |-> R(5)] }

CapitalPriceMaps ==
    { <<>>,
      [s \in {Symbol("BTC", "USDT")} |-> R(5)],
      [s \in {Symbol("BTC", "USDT"), Symbol("ETH", "BTC"), Symbol("ETH", "USDT")} |->
          CASE s = Symbol("BTC", "USDT") -> R(4)
            [] s = Symbol("ETH", "BTC") -> <<1, 25>>
            [] OTHER -> <<4, 25>>] }

InitCapital ==
    /\ pc = "getDeposits"
    /\ NOW = Now0
    /\ tzOffset = 0
    /\ priceMap \in CapitalPriceMaps
    /\ dailyPrices \in CandleScenarios
    /\ IdleCall
    /\ IdlePnl
    /\ prevRun = NoRun
    /\ IdleCapital
    /\ IdleReport
    /\ IdleIo

\* const deposits = await getDeposits()
GetDeposits ==
    /\ pc = "getDeposits"
    /\ deposits' \in SeqsUpTo(DepositPool, MaxFlows)
    /\ pc' = "deposits"
    /\ UNCHANGED <<envVars, callVars, pnlVars, prevRun, depositDetails, totalDepositsBtc,
                   withdrawals, withdrawalDetails, totalWithdrawalsBtc, reportVars, analysisVars, pageVars,
                   ioVars>>

\* one turn of for (const d of deposits)
ValueDeposit ==
    /\ pc = "deposits"
    /\ Len(depositDetails) < Len(deposits)
    /\ LET d == deposits[Len(depositDetails) + 1]
       IN  /\ depositDetails' = Append(depositDetails, DepositDetail(d, dailyPrices, btcPrice))
           /\ totalDepositsBtc' = RAdd(totalDepositsBtc, DepositBtc(d, dailyPrices, btcPrice))
    /\ UNCHANGED <<pc, envVars, callVars, pnlVars, prevRun, deposits,
                   withdrawals, withdrawalDetails, totalWithdrawalsBtc, reportVars, analysisVars, pageVars,
                   ioVars>>

\* const withdrawals = await getWithdrawals()
GetWithdrawals ==
    /\ pc = "deposits"
    /\ Len(depositDetails) = Len(deposits)
    /\ withdrawals' \in SeqsUpTo(WithdrawalPool, MaxFlows)
    /\ pc' = "withdrawals"
    /\ UNCHANGED <<envVars, callVars, pnlVars, prevRun, deposits, depositDetails,
                   totalDepositsBtc, withdrawalDetails, totalWithdrawalsBtc, reportVars, analysisVars, pageVars,
                   ioVars>>

\* one turn of for (const w of withdrawals)
ValueWithdrawal ==
    /\ pc = "withdrawals"
    /\ Len(withdrawalDetails) < Len(withdrawals)
    /\ LET w == withdrawals[Len(withdrawalDetails) + 1]
       IN  /\ withdrawalDetails' = Append(withdrawalDetails, WithdrawalDetail(w, priceMap))
           /\ totalWithdrawalsBtc' = RAdd(totalWithdrawalsBtc, WithdrawalBtc(w, priceMap))
    /\ UNCHANGED <<pc, envVars, callVars, pnlVars, prevRun, deposits, depositDetails,
                   totalDepositsBtc, withdrawals, reportVars, analysisVars, pageVars, ioVars>>

\* the end of the withdrawal loop
CapitalDone ==
    /\ pc = "withdrawals"
    /\ Len(withdrawalDetails) = Len(withdrawals)
    /\ pc' = "capitalDone"
    /\ UNCHANGED <<envVars, callVars, pnlVars, prevRun, capitalVars, reportVars, analysisVars, pageVars,
                   ioVars>>

NextCapital ==
    GetDeposits \/ ValueDeposit \/ GetWithdrawals \/ ValueWithdrawal \/ CapitalDone

SpecCapital == InitCapital /\ [][NextCapital]_vars

----------------------------------------------------------------------------
(* Two executions of step 9 on the same inputs, started at different times *)

\* longest income history of the two-execution study
MaxRerunIncome == 2

\* the wall clock at the start of an execution: Now0, 30 hours later, one
\* week later
NowChoices == {Now0, Now0 + DayMs + 6, Now0 + 7 * DayMs}

InitRerun ==
    /\ pc = "timeline"
    /\ NOW \in NowChoices
    /\ tzOffset = 3
    /\ priceMap \in SpotScenarios
    /\ dailyPrices \in CandleScenarios
    /\ IdleCall
    /\ income \in SeqsUpTo(IncomePool, MaxRerunIncome)
    /\ incomeTimeline = <<>>
    /\ weeklyPnl = <<>>
    /\ monthlyPnl = <<>>
    /\ prevRun = NoRun
    /\ IdleCapital
    /\ IdleReport
    /\ IdleIo

\* the program is started again, later, on the same inputs: NOW is read
\* again from the clock
StartAgain ==
    /\ pc = "built"
    /\ prevRun.run = 0
    /\ prevRun' = [run |-> 1, NOW |-> NOW, incomeTimeline |-> incomeTimeline,
                   weeklyPnl |-> weeklyPnl, monthlyPnl |-> monthlyPnl]
    /\ NOW' \in NowChoices
    /\ incomeTimeline' = <<>>
    /\ weeklyPnl' = <<>>
    /\ monthlyPnl' = <<>>
    /\ pc' = "timeline"
    /\ UNCHANGED <<tzOffset, priceMap, dailyPrices, callVars, income, capitalVars, reportVars, analysisVars, pageVars,
                   ioVars>>

NextRerun == BuildIncomeTimeline \/ BuildWeeklyPnl \/ BuildMonthlyPnl \/ StartAgain

SpecRerun == InitRerun /\ [][NextRerun]_vars

----------------------------------------------------------------------------
(* Steps 9 and 10 of main and the report's growth tab, on any income       *)
(* history and balance                                                     *)

Balances == {R(1250), R(-149), <<7, 2>>}

InitEquity ==
    /\ pc = "timeline"
    /\ NOW = Now0
    /\ tzOffset = 0
    /\ priceMap = [s \in {Symbol("BTC", "USDT")} |-> R(5)]
    /\ dailyPrices \in CandleScenarios
    /\ IdleCall
    /\ income \in SeqsUpTo(IncomePool, MaxIncome)
    /\ incomeTimeline = <<>>
    /\ weeklyPnl = <<>>
    /\ monthlyPnl = <<>>
    /\ prevRun = NoRun
    /\ IdleCapital
    /\ totalBalanceBtc \in Balances
    /\ equityCurve = NoCurve
    /\ RAW = NoRaw
    /\ growth = NoGrowth
    /\ IdleAnalysis
    /\ IdlePage
    /\ IdleIo

\* generateHTML: the equity curve and the RAW object of the report
GenerateHTML ==
    /\ pc = "built"
    /\ equityCurve' = genEquityCurve(incomeTimeline, totalBalanceBtc)
    /\ RAW' = RawData(incomeTimeline, depositDetails, monthlyPnl, totalBalanceBtc)
    /\ pc' = "report"
    /\ UNCHANGED <<envVars, callVars, pnlVars, prevRun, capitalVars, totalBalanceBtc, growth,
                   analysisVars, pageVars, ioVars>>

\* the report is opened: (function initGrowth(){...})()
InitGrowth ==
    /\ pc = "report"
    /\ growth' = initGrowth(RAW)
    /\ pc' = "growthReady"
    /\ UNCHANGED <<envVars, callVars, pnlVars, prevRun, capitalVars, totalBalanceBtc,
                   equityCurve, RAW, analysisVars, pageVars, ioVars>>

NextEquity ==
    BuildIncomeTimeline \/ BuildWeeklyPnl \/ BuildMonthlyPnl \/ GenerateHTML \/ InitGrowth

SpecEquity == InitEquity /\ [][NextEquity]_vars

----------------------------------------------------------------------------
(* Steps 9 and 10 of main with the forecast and the risk statistics, and   *)
(* the report's script: masterRecalc and recalcForecast on the opened page *)

\* longest income history of the analytics study
MaxRecords == 3

Mar6 == Jan31 + 35 * DayMs

\* the records the server holds, in the order it returns them
ServerRecords ==
    << [incomeType |-> "REALIZED_PNL", asset |-> "USDT", time |-> Jan31 + 3, income |-> R(400)],
       [incomeType |-> "COMMISSION", asset |-> "USDT", time |-> Jan31 + 5, income |-> R(-1200)],
       [incomeType |-> "FUNDING_FEE", asset |-> "USDT", time |-> Jan31 + 9, income |-> Zero],
       [incomeType |-> "COMMISSION", asset |-> "USDT", time |-> Jan31 + DayMs + 1, income |-> R(-800)],
       [incomeType |-> "REALIZED_PNL", asset |-> "USDT", time |-> Jan31 + DayMs + 5, income |-> R(800)],
       [incomeType |-> "FUNDING_FEE", asset |-> "USDT", time |-> Mar6 + 2, income |-> R(1200)],
       [incomeType |-> "REALIZED_PNL", asset |-> "USDT", time |-> Mar6 + 7, income |-> R(-400)] >>

\* the records of s whose index is in S, in the order of s
RECURSIVE Pick(_, _, _)
Pick(s, S, i) ==
    IF i > Len(s) THEN <<>>
    ELSE (IF i \in S THEN <<s[i]>> ELSE <<>>) \o Pick(s, S, i + 1)

\* a history with a record that is no PnL: a transfer before two PnL records
TransferHistory ==
    << [incomeType |-> "TRANSFER", asset |-> "USDT", time |-> Jan31 + 1, income |-> R(2000)],
       ServerRecords[1], ServerRecords[4] >>

\* the income histories: any records of the server's, at most MaxRecords,
\* and the history with the transfer
Histories ==
    {Pick(ServerRecords, S, 1) :
        S \in {T \in SUBSET (1..Len(ServerRecords)) : Cardinality(T) <= MaxRecords}}
    \cup {TransferHistory}

\* total balances: none, a debt, and two that toFixed(10) leaves and rounds
AnalyticsBalances == {Zero, R(-100), R(400), R(250)}

\* the deposits main has valued: none, or one BTC deposit
DepositScenarios ==
    { <<>>,
      <<[coin |-> "BTC", amount |-> R(200), insertTime |-> Jan31 + DayMs + 2,
         btcValue |-> R(200), btcPriceAtTime |-> R(4)]>> }

\* the withdrawals main has valued: none, or one BTC withdrawal
WithdrawalScenarios ==
    { <<>>, <<[coin |-> "BTC", amount |-> R(100), btcValue |-> R(100)]>> }

\* what the startDate field can hold: dates before and inside the history
StartDates == {Jan31 - 31 * DayMs, Jan31 + 2 * DayMs}

\* what the fcMonths field can hold, as parseInt reads it
MonthFields == {R(-2), R(1), R(2), R(3)}

InitAnalytics ==
    /\ pc = "timeline"
    /\ NOW = Now0
    /\ tzOffset = 0
    /\ priceMap = [s \in {Symbol("BTC", "USDT")} |-> R(4)]
    /\ dailyPrices = <<[time |-> Jan31, close |-> R(4)]>>
    /\ IdleCall
    /\ income \in Histories
    /\ incomeTimeline = <<>>
    /\ weeklyPnl = <<>>
    /\ monthlyPnl = <<>>
    /\ prevRun = NoRun
    /\ deposits = <<>>
    /\ depositDetails \in DepositScenarios
    /\ totalDepositsBtc = SumValues([i \in 1..Len(depositDetails) |-> depositDetails[i].btcValue],
                                    Len(depositDetails))
    /\ withdrawals = <<>>
    /\ withdrawalDetails \in WithdrawalScenarios
    /\ totalWithdrawalsBtc = SumValues([i \in 1..Len(withdrawalDetails) |->
                                           withdrawalDetails[i].btcValue],
                                       Len(withdrawalDetails))
    /\ totalBalanceBtc \in AnalyticsBalances
    /\ equityCurve = NoCurve
    /\ RAW = NoRaw
    /\ growth = NoGrowth
    /\ IdleAnalysis
    /\ IdlePage
    /\ IdleIo

\* const netExternalFlowBtc = totalDepositsBtc - totalWithdrawalsBtc
netExternalFlowBtc == RSub(totalDepositsBtc, totalWithdrawalsBtc)

\* const robotPnlBtc = totalBalanceBtc - netExternalFlowBtc
robotPnlBtc == RSub(totalBalanceBtc, netExternalFlowBtc)

\* main, step 9: const forecast = computeForecastData(...)
ComputeForecastData ==
    /\ pc = "built"
    /\ forecast' = computeForecastData(monthlyPnl, totalBalanceBtc, netExternalFlowBtc)
    /\ pc' = "forecast"
    /\ UNCHANGED <<envVars, callVars, pnlVars, prevRun, capitalVars, reportVars,
                   riskMetrics, drawdownChart, pageVars, ioVars>>

\* main, step 10: generateHTML with the drawdown chart and the risk metrics
GenerateReport ==
    /\ pc = "forecast"
    /\ drawdownChart' = genDrawdownChart(incomeTimeline, totalBalanceBtc)
    /\ equityCurve' = genEquityCurve(incomeTimeline, totalBalanceBtc)
    /\ riskMetrics' = computeRiskMetrics(incomeTimeline, totalBalanceBtc)
    /\ RAW' = RawData(incomeTimeline, depositDetails, monthlyPnl, totalBalanceBtc)
    /\ pc' = "written"
    /\ UNCHANGED <<envVars, callVars, pnlVars, prevRun, capitalVars, totalBalanceBtc, growth,
                   forecast, pageVars, ioVars>>

\* masterRecalc() with the fields holding start and months: the cards,
\* window._fc, and the call of recalcForecast at its end
MasterRecalc(start, months) ==
    LET shown == masterRecalc(RAW, start)
    IN  /\ startDate' = start
        /\ fcMonths' = months
        /\ cards' = shown.cards
        /\ fc' = shown.fc
        /\ scenarios' = recalcForecast(shown.fc, months)

\* the report is opened: the script runs masterRecalc() on the fields
OpenReport ==
    /\ pc = "written"
    /\ \E start \in StartDates, months \in MonthFields : MasterRecalc(start, months)
    /\ pc' = "open"
    /\ UNCHANGED <<envVars, callVars, pnlVars, prevRun, capitalVars, reportVars, analysisVars, ioVars>>

\* $('startDate').addEventListener('change', masterRecalc)
ChangeStartDate ==
    /\ pc = "open"
    /\ \E start \in StartDates : MasterRecalc(start, fcMonths)
    /\ UNCHANGED <<pc, envVars, callVars, pnlVars, prevRun, capitalVars, reportVars,
                   analysisVars, ioVars>>

\* $('fcMonths').addEventListener('input', recalcForecast)
InputFcMonths ==
    /\ pc = "open"
    /\ \E months \in MonthFields :
          /\ fcMonths' = months
          /\ scenarios' = recalcForecast(fc, months)
    /\ UNCHANGED <<pc, envVars, callVars, pnlVars, prevRun, capitalVars, reportVars,
                   analysisVars, startDate, cards, fc, ioVars>>

NextAnalytics ==
    \/ BuildIncomeTimeline \/ BuildWeeklyPnl \/ BuildMonthlyPnl
    \/ ComputeForecastData \/ GenerateReport
    \/ OpenReport \/ ChangeStartDate \/ InputFcMonths

SpecAnalytics == InitAnalytics /\ [][NextAnalytics]_vars

----------------------------------------------------------------------------
(* withRetry, called with any maxAttempts on a function of any behaviour *)

\* largest maxAttempts of the retry study
MaxAttempts == 4

\* the second argument of withRetry, REQUEST_RETRIES when it is left out
RetryArguments == (0..MaxAttempts) \cup {REQUEST_RETRIES}

\* what a call of fn can come to: one of two values, or an error of one of
\* three kinds
FnOutcomes ==
    { Returned(ArrayOf(<<>>)), Returned(NotArray), Threw("FAPI request timeout"),
      Threw("Too many requests"), Threw("undefined") }

InitRetry ==
    /\ pc = "retry"
    /\ IdleMain
    /\ IdleIo

\* withRetry(fn, max) is called
CallWithRetry ==
    /\ pc = "retry"
    /\ retryPc = "idle"
    /\ \E max \in RetryArguments : WithRetry(max)
    /\ UNCHANGED <<pc, envVars, callVars, pnlVars, prevRun, capitalVars, reportVars,
                   analysisVars, pageVars, fetchVars, requestVars, playerVars>>

\* the call of fn in flight settles
FnSettlesAnyhow ==
    /\ pc = "retry"
    /\ \E o \in FnOutcomes : FnSettles(o)
    /\ UNCHANGED <<pc, envVars, callVars, pnlVars, prevRun, capitalVars, reportVars,
                   analysisVars, pageVars, fetchVars, requestVars, playerVars>>

\* the timer of sleep fires
BackoffEnds ==
    /\ pc = "retry"
    /\ SleepEnds
    /\ UNCHANGED <<pc, envVars, callVars, pnlVars, prevRun, capitalVars, reportVars,
                   analysisVars, pageVars, fetchVars, requestVars, playerVars>>

NextRetry == CallWithRetry \/ FnSettlesAnyhow \/ BackoffEnds

SpecRetry == InitRetry /\ [][NextRetry]_vars

----------------------------------------------------------------------------
(* getFuturesIncome against a server holding any income history, with      *)
(* requests that fail or succeed                                           *)

\* records per page, standing for limit: 1000
PageLimit == 2

\* most requests of one call of the study
MaxRequests == 4

\* the records a server can hold: three of one timestamp, two later ones,
\* one that arrives while the program runs, and one from before the period
ServerPool ==
    << [incomeType |-> "TRANSFER", asset |-> "USDT", time |-> Jan31 - 40 * DayMs, income |-> R(50)],
       [incomeType |-> "REALIZED_PNL", asset |-> "USDT", time |-> Jan31 + 3, income |-> R(400)],
       [incomeType |-> "COMMISSION", asset |-> "USDT", time |-> Jan31 + 3, income |-> R(-1200)],
       [incomeType |-> "FUNDING_FEE", asset |-> "USDT", time |-> Jan31 + 3, income |-> R(8)],
       [incomeType |-> "REALIZED_PNL", asset |-> "USDT", time |-> Jan31 + 5, income |-> R(800)],
       [incomeType |-> "FUNDING_FEE", asset |-> "USDT", time |-> Jan31 + 7, income |-> R(-12)],
       [incomeType |-> "COMMISSION", asset |-> "USDT", time |-> Now0 + 1, income |-> R(-4)] >>

\* the histories a server can hold: any records of the pool, oldest first
IncomeServers == {Pick(ServerPool, S, 1) : S \in SUBSET (1..Len(ServerPool))}

\* what a request for the page from startTime can come to
IncomeOutcomes ==
    { Returned(ArrayOf(ServerPage(server, startTime, PageLimit, 1))), Returned(NotArray),
      Threw("FAPI request timeout") }

InitIncome ==
    /\ pc = "getFuturesIncome"
    /\ IdleMain
    /\ IdleRetry
    /\ server \in IncomeServers
    /\ startTime = 0
    /\ requested = <<>>
    /\ IdleRequest
    /\ IdlePlayer

\* getFuturesIncome() up to its first await: the first request
GetFuturesIncome ==
    /\ pc = "getFuturesIncome"
    /\ income' = <<>>
    /\ startTime' = START_TIME
    /\ requested' = <<START_TIME>>
    /\ WithRetry(incomeRetries)
    /\ pc' = "request"
    /\ UNCHANGED <<envVars, callVars, incomeTimeline, weeklyPnl, monthlyPnl, prevRun,
                   capitalVars, reportVars, analysisVars, pageVars, server, requestVars,
                   playerVars>>

\* the request in flight settles
IncomeResponds ==
    /\ pc = "request"
    /\ \E o \in IncomeOutcomes : FnSettles(o)
    /\ UNCHANGED <<pc, envVars, callVars, pnlVars, prevRun, capitalVars, reportVars,
                   analysisVars, pageVars, fetchVars, requestVars, playerVars>>

\* the backoff of withRetry ends
IncomeBackoffEnds ==
    /\ pc = "request"
    /\ SleepEnds
    /\ UNCHANGED <<pc, envVars, callVars, pnlVars, prevRun, capitalVars, reportVars,
                   analysisVars, pageVars, fetchVars, requestVars, playerVars>>

\* withRetry has returned the batch: the body of the loop up to its break
\* or its await sleep(800)
IncomeBatch ==
    /\ pc = "request"
    /\ retryPc = "returned"
    /\ IF BatchEnds(retryValue)
       THEN pc' = "returned" /\ UNCHANGED <<income, startTime>>
       ELSE /\ income' = income \o retryValue.items
            /\ IF LastPage(retryValue, PageLimit)
               THEN pc' = "returned" /\ UNCHANGED startTime
               ELSE /\ startTime' =
                          NextStart(retryValue.items[Len(retryValue.items)].time)
                    /\ pc' = "pause"
    /\ UNCHANGED <<envVars, callVars, incomeTimeline, weeklyPnl, monthlyPnl, prevRun,
                   capitalVars, reportVars, analysisVars, pageVars, retryVars, server,
                   requested, requestVars, playerVars>>

\* withRetry has thrown: getFuturesIncome throws
IncomeFails ==
    /\ pc = "request"
    /\ retryPc = "thrown"
    /\ pc' = "thrown"
    /\ UNCHANGED <<envVars, callVars, pnlVars, prevRun, capitalVars, reportVars,
                   analysisVars, pageVars, ioVars>>

\* sleep(800) ends: the next turn of while (true), the next request
IncomeNextPage ==
    /\ pc = "pause"
    /\ Len(requested) < MaxRequests
    /\ requested' = Append(requested, startTime)
    /\ WithRetry(incomeRetries)
    /\ pc' = "request"
    /\ UNCHANGED <<envVars, callVars, pnlVars, prevRun, capitalVars, reportVars,
                   analysisVars, pageVars, server, startTime, requestVars, playerVars>>

NextIncome ==
    \/ GetFuturesIncome \/ IncomeResponds \/ IncomeBackoffEnds
    \/ IncomeBatch \/ IncomeFails \/ IncomeNextPage

\* timers fire and requests settle: no step that can be taken waits for ever
SpecIncome == InitIncome /\ [][NextIncome]_vars /\ WF_vars(NextIncome)

----------------------------------------------------------------------------
(* fapiRequest: one call, the events of its request, its response and its  *)
(* timer in any order Node can deliver them                                *)

\* in milliseconds
FAPI_TIMEOUT_MS == 30000

\* JSON.parse(d) for the texts of the model, and d itself where it does not
\* parse (try { body = JSON.parse(d); } catch { body = d; })
JsonParse(d) ==
    CASE d = "[]" ->
            [type |-> "array", hasCode |-> FALSE, code |-> 0, msg |-> "", text |-> d]
      [] d = "{\"code\":-1003,\"msg\":\"Too many requests.\"}" ->
            [type |-> "object", hasCode |-> TRUE, code |-> -1003,
             msg |-> "Too many requests.", text |-> d]
      [] d = "{\"code\":-2015}" ->
            [type |-> "object", hasCode |-> TRUE, code |-> -2015, msg |-> "", text |-> d]
      [] d = "{\"code\":0}" ->
            [type |-> "object", hasCode |-> TRUE, code |-> 0, msg |-> "", text |-> d]
      [] OTHER ->
            [type |-> "string", hasCode |-> FALSE, code |-> 0, msg |-> "", text |-> d]

\* body && typeof body.code === 'number' && body.code !== 0
IsApiError(b) == b.text # "" /\ b.hasCode /\ b.code # 0

\* body.msg || `Binance API error ${body.code}`
ApiErrorMessage(b) ==
    IF b.msg # "" THEN b.msg ELSE "Binance API error " \o ToString(b.code)

\* a call of resolve or reject: the promise takes the first one only
Settle(call, value, reason) ==
    /\ settles' = Append(settles, [call |-> call, value |-> value, reason |-> reason])
    /\ promise' = IF promise.state = "pending"
                  THEN [state |-> IF call = "resolve" THEN "resolved" ELSE "rejected",
                        value |-> value, reason |-> reason]
                  ELSE promise

\* fapiRequest(endpoint, params): the promise is made, the request is sent
\* (req.end()) and the timer t is set
FapiRequest ==
    /\ req = "none"
    /\ promise' = [state |-> "pending", value |-> Undefined, reason |-> ""]
    /\ req' = "sent"
    /\ res' = <<>>
    /\ timer' = "pending"
    /\ body' = ""
    /\ settles' = <<>>

\* the callback of https.request: a response arrives whose text will come in
\* the given chunks; let d = ''
OnResponse(chunks) ==
    /\ req = "sent"
    /\ req' = "response"
    /\ res' = chunks
    /\ body' = ""
    /\ UNCHANGED <<promise, timer, settles>>

\* res.on('data', c => d += c)
OnData ==
    /\ req = "response"
    /\ res # <<>>
    /\ body' = body \o Head(res)
    /\ res' = Tail(res)
    /\ UNCHANGED <<promise, req, timer, settles>>

\* res.on('end', ...), after the last chunk
OnEnd ==
    /\ req = "response"
    /\ res = <<>>
    /\ req' = "ended"
    /\ LET b == JsonParse(body)
       IN  IF IsApiError(b) THEN Settle("reject", Undefined, ApiErrorMessage(b))
           ELSE Settle("resolve", b, "")
    /\ UNCHANGED <<res, timer, body>>

\* req.on('error', reject): the connection fails before or while the response
\* comes, or the request has been destroyed before a response came
OnError(message) ==
    /\ req \in {"sent", "response", "destroyed"}
    /\ req' = "failed"
    /\ Settle("reject", Undefined, message)
    /\ UNCHANGED <<res, timer, body>>

\* the timer fires: req.destroy(); reject(new Error('FAPI request timeout'))
OnTimeout ==
    /\ timer = "pending"
    /\ timer' = "fired"
    /\ req' = IF req = "sent" THEN "destroyed" ELSE "aborted"
    /\ Settle("reject", Undefined, "FAPI request timeout")
    /\ UNCHANGED <<res, body>>

\* req.on('close', () => clearTimeout(t)): the request is closed, after its
\* response has ended, after an error or a destroy, or when the connection is
\* closed while the response is still coming
OnClose ==
    /\ req \in {"response", "ended", "failed", "aborted"}
    /\ req' = "closed"
    /\ timer' = IF timer = "pending" THEN "cleared" ELSE timer
    /\ UNCHANGED <<promise, res, body, settles>>

\* the texts a response can carry, in the chunks they come in
ResponseChunks ==
    { <<"[]">>, <<"[", "]">>, <<"{\"code\":-1003,", "\"msg\":\"Too many requests.\"}">>,
      <<"{\"code\":-2015}">>, <<"{\"code\":0}">>, <<"<html>", "502">>, <<>> }

\* the errors the connection can fail with
NetworkErrors == {"socket hang up", "read ECONNRESET"}

InitRequest ==
    /\ pc = "fapiRequest"
    /\ IdleMain
    /\ IdleIo

CallFapiRequest ==
    /\ pc = "fapiRequest"
    /\ FapiRequest
    /\ pc' = "requested"
    /\ UNCHANGED <<envVars, callVars, pnlVars, prevRun, capitalVars, reportVars, analysisVars,
                   pageVars, retryVars, fetchVars, playerVars>>

\* the variables an event of the request leaves alone
RequestFrame ==
    UNCHANGED <<pc, envVars, callVars, pnlVars, prevRun, capitalVars, reportVars, analysisVars,
                pageVars, retryVars, fetchVars, playerVars>>

ResponseArrives == (\E chunks \in ResponseChunks : OnResponse(chunks)) /\ RequestFrame

DataArrives == OnData /\ RequestFrame

ResponseEnds == OnEnd /\ RequestFrame

RequestFails == (\E message \in NetworkErrors : OnError(message)) /\ RequestFrame

TimerFires == OnTimeout /\ RequestFrame

RequestCloses == OnClose /\ RequestFrame

NextRequest ==
    \/ CallFapiRequest \/ ResponseArrives \/ DataArrives \/ ResponseEnds
    \/ RequestFails \/ TimerFires \/ RequestCloses

\* a timer that is set and not cleared fires
SpecRequest == InitRequest /\ [][NextRequest]_vars /\ WF_vars(TimerFires)

----------------------------------------------------------------------------
(* The growth player of the report: initGrowth's controls and its tick     *)
(* timer, with clicks, slider inputs and ticks in any order                *)

\* N = equityByDay.length - 1
N == Len(growth.equityByDay) - 1

\* updateUI(dayIdx), as far as the slider goes: $('growthSlider').value = dayIdx
updateUI(dayIdx) == slider' = dayIdx

\* tick() once playing is known to hold, with the idx of its closure, the
\* timers then pending and the label the button has: idx++, and either
\* playback ends or the day is shown and the next tick is set
tick(idx, pending, label) ==
    IF idx + 1 > N
    THEN /\ playing' = FALSE
         /\ playLabel' = "Play"
         /\ timers' = pending
         /\ UNCHANGED <<slider, animId, nextTimer>>
    ELSE /\ playing' = TRUE
         /\ playLabel' = label
         /\ updateUI(idx + 1)
         /\ timers' = pending \cup {[id |-> nextTimer, idx |-> idx + 1]}
         /\ animId' = nextTimer
         /\ nextTimer' = nextTimer + 1

\* the click listener of growthPlay
PlayClick ==
    IF ~playing
    THEN tick(slider, timers, "Pause")
    ELSE /\ playing' = FALSE
         /\ playLabel' = "Play"
         /\ timers' = IF animId # 0 THEN {t \in timers : t.id # animId} ELSE timers
         /\ UNCHANGED <<slider, animId, nextTimer>>

\* the timer t fires: tick() with the idx its closure holds
TimerTick(t) ==
    IF ~playing
    THEN /\ timers' = timers \ {t}
         /\ UNCHANGED <<playing, animId, nextTimer, slider, playLabel>>
    ELSE tick(t.idx, timers \ {t}, playLabel)

\* the input listener of growthSlider: updateUI(parseInt(value))
SliderInput(i) == updateUI(i) /\ UNCHANGED <<playing, animId, timers, nextTimer, playLabel>>

\* the click listener of growthTimeline, for a click that rounds to day i:
\* updateUI(Math.max(0, Math.min(i, N)))
TimelineClick(i) ==
    /\ updateUI(IF i < 0 THEN 0 ELSE IF i > N THEN N ELSE i)
    /\ UNCHANGED <<playing, animId, timers, nextTimer, playLabel>>

\* most days of a report of the study
MaxDays == 4

\* most timers set in one run of the study
MaxTimers == 6

\* what initGrowth has computed for reports of 2..MaxDays days
PlayerGrowths ==
    { [startEquity |-> R(100), equityByDay |-> [i \in 1..(days + 1) |-> R(100 * i)]] :
        days \in 2..MaxDays }

InitPlayer ==
    /\ pc = "initGrowth"
    /\ NOW = Now0 /\ tzOffset = 0 /\ priceMap = <<>> /\ dailyPrices = <<>>
    /\ IdleCall /\ IdlePnl /\ prevRun = NoRun /\ IdleCapital
    /\ totalBalanceBtc = Zero /\ equityCurve = NoCurve /\ RAW = NoRaw
    /\ growth \in PlayerGrowths
    /\ IdleAnalysis /\ IdlePage
    /\ IdleIo

\* the variables the player leaves alone
PlayerFrame ==
    UNCHANGED <<envVars, callVars, pnlVars, prevRun, capitalVars, reportVars, analysisVars,
                pageVars, retryVars, fetchVars, requestVars>>

\* the end of initGrowth, and window._growthInit when the tab is shown: updateUI(N)
ShowGrowth ==
    /\ updateUI(N)
    /\ pc' = "player"
    /\ UNCHANGED <<playing, animId, timers, nextTimer, playLabel>>
    /\ PlayerFrame

ClickPlay ==
    /\ pc = "player"
    /\ nextTimer <= MaxTimers
    /\ PlayClick
    /\ UNCHANGED pc
    /\ PlayerFrame

Tick ==
    /\ pc = "player"
    /\ nextTimer <= MaxTimers
    /\ \E t \in timers : TimerTick(t)
    /\ UNCHANGED pc
    /\ PlayerFrame

MoveSlider ==
    /\ pc = "player"
    /\ \E i \in 0..N : SliderInput(i)
    /\ UNCHANGED pc
    /\ PlayerFrame

ClickTimeline ==
    /\ pc = "player"
    /\ \E i \in (-1)..(N + 1) : TimelineClick(i)
    /\ UNCHANGED pc
    /\ PlayerFrame

NextPlayer == ShowGrowth \/ ClickPlay \/ Tick \/ MoveSlider \/ ClickTimeline

\* a timer that is set and not cleared fires
SpecPlayer == InitPlayer /\ [][NextPlayer]_vars /\ WF_vars(Tick)

----------------------------------------------------------------------------
(* C1 *)

Distance(ts, p) == Abs(ts - p.time)

\* C1: for every timestamp and every non-empty candle sequence, btcPriceAt
\* returns the close of a sample at minimal |ts - time| over the whole
\* sequence, and among the samples at that distance the first in sequence order.
C1_NearestFirst ==
    (pc = "priceAtDone" /\ Len(dailyPrices) > 0) =>
        \E i \in 1..Len(dailyPrices) :
            /\ result = dailyPrices[i].close
            /\ \A j \in 1..Len(dailyPrices) :
                   Distance(qTs, dailyPrices[i]) <= Distance(qTs, dailyPrices[j])
            /\ \A j \in 1..(i - 1) :
                   Distance(qTs, dailyPrices[i]) < Distance(qTs, dailyPrices[j])

\* a tie between two samples of different close, the later one not the first
C1_Witness ==
    /\ pc = "priceAtDone"
    /\ Len(dailyPrices) = 3
    /\ Distance(qTs, dailyPrices[2]) = Distance(qTs, dailyPrices[3])
    /\ Distance(qTs, dailyPrices[2]) < Distance(qTs, dailyPrices[1])
    /\ dailyPrices[2].close # dailyPrices[3].close
    /\ result = dailyPrices[2].close

----------------------------------------------------------------------------
(* C2 *)

\* the rate is in the price map, whatever its value
RatePresent(pm, asset, quote) == Rate(pm, asset, quote) # NaN

\* the rate is in the price map and is not 0
RateUsable(pm, asset, quote) ==
    RatePresent(pm, asset, quote) /\ Rate(pm, asset, quote) # Zero

\* the resolution order as the claim words it: a stable asset is divided by
\* BTCUSDT unconditionally, and a rate "exists" when the map holds it
C2_StatedOrder(asset, amount, pm) ==
    CASE asset = "BTC" -> amount
      [] asset # "BTC" /\ asset \in stables -> RDiv(amount, Rate(pm, "BTC", "USDT"))
      [] asset # "BTC" /\ asset \notin stables /\ RatePresent(pm, asset, "BTC") ->
            RMul(amount, Rate(pm, asset, "BTC"))
      [] asset # "BTC" /\ asset \notin stables /\ ~RatePresent(pm, asset, "BTC")
            /\ RatePresent(pm, asset, "USDT") /\ RatePresent(pm, "BTC", "USDT") ->
            RDiv(RMul(amount, Rate(pm, asset, "USDT")), Rate(pm, "BTC", "USDT"))
      [] OTHER -> Zero

\* C2 as stated: for every asset, non-zero amount and price map the result
\* is the one the stated resolution order gives.
C2_Original ==
    (pc = "toBtcDone" /\ qAmount # Zero) =>
        result = C2_StatedOrder(qAsset, qAmount, priceMap)

\* the resolution order with a rate counting only when it is present and
\* not 0, and with 0 for a stable asset that has no such BTCUSDT rate
C2_AmendedOrder(asset, amount, pm) ==
    CASE asset = "BTC" -> amount
      [] asset # "BTC" /\ asset \in stables /\ RateUsable(pm, "BTC", "USDT") ->
            RDiv(amount, Rate(pm, "BTC", "USDT"))
      [] asset # "BTC" /\ asset \notin stables /\ RateUsable(pm, asset, "BTC") ->
            RMul(amount, Rate(pm, asset, "BTC"))
      [] asset # "BTC" /\ asset \notin stables /\ ~RateUsable(pm, asset, "BTC")
            /\ RateUsable(pm, asset, "USDT") /\ RateUsable(pm, "BTC", "USDT") ->
            RDiv(RMul(amount, Rate(pm, asset, "USDT")), Rate(pm, "BTC", "USDT"))
      [] OTHER -> Zero

C2_EthExample ==
    /\ qAsset = "ETH"
    /\ qAmount = R(2)
    /\ Rate(priceMap, "ETH", "USDT") = R(3000)
    /\ Rate(priceMap, "BTC", "USDT") = R(60000)
    /\ ~RatePresent(priceMap, "ETH", "BTC")

\* C2 (amended): toBtc follows the resolution order in which a rate counts
\* only when it is present and not 0: BTC returns the amount unchanged; a
\* stable asset returns amount / BTCUSDT, or 0 without a usable BTCUSDT rate;
\* otherwise amount x asset-BTC rate; otherwise amount x asset-USDT rate /
\* BTCUSDT; otherwise 0.  convert(BTC, x) = x, and 2 ETH at ETHUSDT = 3000,
\* BTCUSDT = 60000 with no ETHBTC rate is 1/10 BTC.
C2_ResolutionOrder ==
    pc = "toBtcDone" =>
        /\ result = C2_AmendedOrder(qAsset, qAmount, priceMap)
        /\ qAsset = "BTC" => result = qAmount
        /\ C2_EthExample => result = <<1, 10>>

\* the ETH example has been converted
C2_Witness == pc = "toBtcDone" /\ C2_EthExample /\ result = <<1, 10>>

----------------------------------------------------------------------------
(* C3, C5 - C8: helpers of the statements *)

IsPnl(inc) == inc.incomeType \in PnlTypes

PnlIndexes == {i \in 1..Len(income) : IsPnl(income[i])}

\* the sum of val[i] over the indexes idx
RECURSIVE SumOf(_, _)
SumOf(val, idx) ==
    IF idx = {} THEN Zero
    ELSE LET i == CHOOSE j \in idx : TRUE
         IN  RAdd(val[i], SumOf(val, idx \ {i}))

DailyBtcAt == [i \in 1..Len(incomeTimeline) |-> incomeTimeline[i].dailyBtc]

WeeklyBtcAt == [i \in 1..Len(weeklyPnl) |-> weeklyPnl[i].pnlBtc]

MonthlyBtcAt == [i \in 1..Len(monthlyPnl) |-> monthlyPnl[i].pnlBtc]

InsertAt(s, k, x) == SubSeq(s, 1, k) \o <<x>> \o SubSeq(s, k + 1, Len(s))

RemoveAt(s, i) == SubSeq(s, 1, i - 1) \o SubSeq(s, i + 1, Len(s))

Times(buckets) == {buckets[i].time : i \in 1..Len(buckets)}

StrictlyIncreasing(buckets) ==
    \A i \in 1..(Len(buckets) - 1) : buckets[i].time < buckets[i + 1].time

\* the month after <<year, month>>
NextMonth(ym) == IF ym[2] = 12 THEN <<ym[1] + 1, 1>> ELSE <<ym[1], ym[2] + 1>>

----------------------------------------------------------------------------
(* C3 *)

\* the price the claim divides by: the historical price, or the spot price
\* when there is no historical price
C3_ClaimedPrice(inc) ==
    IF btcPriceAt(inc.time, dailyPrices) # NaN
    THEN btcPriceAt(inc.time, dailyPrices) ELSE btcPrice

\* the BTC amount the claim gives an income record
C3_ClaimedBtc(inc) ==
    IF inc.asset = "BTC" THEN inc.income ELSE RDiv(inc.income, C3_ClaimedPrice(inc))

C3_ClaimedBtcAt == [i \in 1..Len(income) |-> C3_ClaimedBtc(income[i])]

\* C3 as stated: every income record folded into the daily, weekly and
\* monthly buckets counts with its native amount when its asset is BTC and
\* with native amount / price otherwise (stated for the histories in which
\* every PnL record has a price that is not 0).
C3_Original ==
    (pc = "built" /\ \A i \in PnlIndexes : Truthy(C3_ClaimedPrice(income[i]))) =>
        /\ \A b \in 1..Len(incomeTimeline) :
              incomeTimeline[b].dailyBtc =
                  SumOf(C3_ClaimedBtcAt,
                        {i \in PnlIndexes : DayKey(income[i].time) = incomeTimeline[b].time})
        /\ \A b \in 1..Len(weeklyPnl) :
              weeklyPnl[b].pnlBtc =
                  SumOf(C3_ClaimedBtcAt,
                        {i \in PnlIndexes : WeekStart(income[i].time) = weeklyPnl[b].time})
        /\ \A b \in 1..Len(monthlyPnl) :
              monthlyPnl[b].pnlBtc =
                  SumOf(C3_ClaimedBtcAt,
                        {i \in PnlIndexes : LocalYearMonth(income[i].time) = monthlyPnl[b].key})

----------------------------------------------------------------------------
(* C5 *)

OtherRecords == {r \in IncomePool : ~IsPnl(r)}

C5_SameBuckets(inc) ==
    /\ buildIncomeTimeline(inc, dailyPrices, btcPrice) = incomeTimeline
    /\ buildWeeklyPnl(inc, dailyPrices, btcPrice) = weeklyPnl
    /\ buildMonthlyPnl(inc, dailyPrices, btcPrice) = monthlyPnl

\* C5: a record whose category is not REALIZED_PNL, FUNDING_FEE or
\* COMMISSION changes no PnL aggregate: with such a record added anywhere in
\* the income history (a history with room for one more record), or removed
\* from it, the daily, weekly and monthly bucket sequences are the same,
\* bucket for bucket.
C5_OnlyPnlCategories ==
    pc = "built" =>
        /\ Len(income) < MaxIncome =>
              \A r \in OtherRecords : \A k \in 0..Len(income) :
                  C5_SameBuckets(InsertAt(income, k, r))
        /\ \A i \in 1..Len(income) :
              ~IsPnl(income[i]) => C5_SameBuckets(RemoveAt(income, i))

\* a history with a PnL record and a record of another category whose day,
\* week and month hold no PnL record
C5_Witness ==
    /\ pc = "built"
    /\ Len(incomeTimeline) = 1
    /\ \E i \in 1..Len(income) :
          /\ income[i].incomeType = "WELCOME_BONUS"
          /\ DayKey(income[i].time) \notin Times(incomeTimeline)
          /\ WeekStart(income[i].time) \notin Times(weeklyPnl)

----------------------------------------------------------------------------
(* C6 *)

\* C6: in the daily buckets, cumulativeBtc of bucket i is the sum of
\* dailyBtc of the buckets 1..i, in whatever order the records came.
C6_Cumulative ==
    pc \in {"weekly", "monthly", "built"} =>
        \A i \in 1..Len(incomeTimeline) :
            incomeTimeline[i].cumulativeBtc = SumOf(DailyBtcAt, 1..i)

\* three days built from records that came latest first
C6_Witness ==
    /\ pc = "built"
    /\ Len(incomeTimeline) = 3
    /\ Len(income) = 3
    /\ income[1].time > income[2].time
    /\ income[2].time > income[3].time
    /\ \A i \in 1..3 : incomeTimeline[i].dailyBtc # Zero
    /\ incomeTimeline[3].cumulativeBtc # incomeTimeline[3].dailyBtc

----------------------------------------------------------------------------
(* C7 *)

C7_IncomeBtcAt == [i \in 1..Len(income) |-> IncomeBtc(income[i], dailyPrices, btcPrice)]

\* C7: the total of dailyBtc over the daily buckets, the total of pnlBtc over
\* the weekly buckets and the total of pnlBtc over the monthly buckets are
\* equal (each is the sum of the PnL records' BTC amounts, every record
\* counted once), and every PnL record lies in exactly one bucket of each
\* granularity.
C7_ConsistentTotals ==
    pc = "built" =>
        /\ SumOf(DailyBtcAt, 1..Len(incomeTimeline)) = SumOf(WeeklyBtcAt, 1..Len(weeklyPnl))
        /\ SumOf(WeeklyBtcAt, 1..Len(weeklyPnl)) = SumOf(MonthlyBtcAt, 1..Len(monthlyPnl))
        /\ SumOf(MonthlyBtcAt, 1..Len(monthlyPnl)) = SumOf(C7_IncomeBtcAt, PnlIndexes)
        /\ \A i \in PnlIndexes :
              /\ Cardinality({b \in 1..Len(incomeTimeline) :
                     /\ incomeTimeline[b].time <= income[i].time
                     /\ income[i].time < incomeTimeline[b].time + DayMs}) = 1
              /\ Cardinality({b \in 1..Len(weeklyPnl) :
                     /\ weeklyPnl[b].time <= income[i].time
                     /\ income[i].time < weeklyPnl[b].time + weekMs}) = 1
              /\ Cardinality({b \in 1..Len(monthlyPnl) :
                     /\ monthlyPnl[b].time <= income[i].time
                     /\ income[i].time < MonthStart(NextMonth(monthlyPnl[b].key))}) = 1

\* three PnL records, a funding fee among them, in two days, two weeks and
\* two months that group them differently, with a total that is not 0
C7_Witness ==
    /\ pc = "built"
    /\ Cardinality(PnlIndexes) = 3
    /\ \E i \in PnlIndexes : income[i].incomeType = "FUNDING_FEE"
    /\ Len(incomeTimeline) = 2 /\ Len(weeklyPnl) = 2 /\ Len(monthlyPnl) = 2
    /\ incomeTimeline[1].dailyBtc # weeklyPnl[1].pnlBtc
    /\ SumOf(DailyBtcAt, 1..Len(incomeTimeline)) # Zero

----------------------------------------------------------------------------
(* C8 *)

\* C8: for each granularity the bucket start times are strictly increasing
\* and are exactly the period keys of the PnL records (day key =
\* floor(t / day) x day, week key = anchor + floor((t - anchor) / week) x
\* week, month key = the local calendar month): one bucket per period that
\* has a record, none for a period without, and every record's timestamp
\* inside the period of its bucket.
C8_SparseSortedBuckets ==
    pc = "built" =>
        /\ StrictlyIncreasing(incomeTimeline)
        /\ StrictlyIncreasing(weeklyPnl)
        /\ StrictlyIncreasing(monthlyPnl)
        /\ Times(incomeTimeline) = {(income[i].time \div DayMs) * DayMs : i \in PnlIndexes}
        /\ Times(weeklyPnl) =
              {START_TIME + ((income[i].time - START_TIME) \div weekMs) * weekMs : i \in PnlIndexes}
        /\ Times(monthlyPnl) = {MonthStart(LocalYearMonth(income[i].time)) : i \in PnlIndexes}
        /\ \A i \in PnlIndexes :
              /\ \E b \in 1..Len(incomeTimeline) :
                    /\ incomeTimeline[b].time <= income[i].time
                    /\ income[i].time < incomeTimeline[b].time + DayMs
              /\ \E b \in 1..Len(weeklyPnl) :
                    /\ weeklyPnl[b].time <= income[i].time
                    /\ income[i].time < weeklyPnl[b].time + weekMs
              /\ \E b \in 1..Len(monthlyPnl) :
                    /\ monthlyPnl[b].time <= income[i].time
                    /\ income[i].time < MonthStart(NextMonth(monthlyPnl[b].key))

\* records that came latest first, with a gap of several days between two
\* daily buckets and an empty week between two weekly buckets
C8_Witness ==
    /\ pc = "built"
    /\ Len(income) >= 2
    /\ income[1].time > income[2].time
    /\ Len(incomeTimeline) >= 2
    /\ incomeTimeline[2].time - incomeTimeline[1].time > DayMs
    /\ Len(weeklyPnl) >= 2
    /\ weeklyPnl[2].time - weeklyPnl[1].time > weekMs

----------------------------------------------------------------------------
(* C4 *)

C4_DepositToBtc == [i \in 1..Len(deposits) |->
                       toBtc(deposits[i].coin, deposits[i].amount, priceMap)]

C4_WithdrawalToBtc == [i \in 1..Len(withdrawals) |->
                          toBtc(withdrawals[i].coin, withdrawals[i].amount, priceMap)]

\* every deposit has a historical price, and there is a spot price
C4_PricesKnown ==
    /\ Truthy(btcPrice)
    /\ \A i \in 1..Len(deposits) : Truthy(btcPriceAt(deposits[i].insertTime, dailyPrices))

\* C4 as stated: deposits are valued through toBtc like withdrawals: the
\* btcValue of every deposit, and so totalDepositsBtc, is toBtc(coin,
\* amount, priceMap) (stated for the runs in which no price is missing).
C4_Original ==
    (pc = "capitalDone" /\ C4_PricesKnown) =>
        /\ \A i \in 1..Len(withdrawals) : withdrawalDetails[i].btcValue = C4_WithdrawalToBtc[i]
        /\ totalWithdrawalsBtc = SumOf(C4_WithdrawalToBtc, 1..Len(withdrawals))
        /\ \A i \in 1..Len(deposits) : depositDetails[i].btcValue = C4_DepositToBtc[i]
        /\ totalDepositsBtc = SumOf(C4_DepositToBtc, 1..Len(deposits))

----------------------------------------------------------------------------
(* C9 *)

\* C9 as stated: two executions on the same income records, price samples
\* and spot price produce identical daily, weekly and monthly buckets,
\* whatever the wall-clock times at which they were started.
C9_Original ==
    (pc = "built" /\ prevRun.run = 1) =>
        /\ incomeTimeline = prevRun.incomeTimeline
        /\ weeklyPnl = prevRun.weeklyPnl
        /\ monthlyPnl = prevRun.monthlyPnl

\* C9 (amended): two executions on the same income records, price samples
\* and spot price, in the same time zone, produce identical daily and
\* monthly buckets whatever their start times, and identical weekly buckets
\* when their start times (hence START_TIME, the anchor of the weeks) are
\* equal or differ by a whole number of weeks.
C9_Deterministic ==
    (pc = "built" /\ prevRun.run = 1) =>
        /\ incomeTimeline = prevRun.incomeTimeline
        /\ monthlyPnl = prevRun.monthlyPnl
        /\ (NOW - prevRun.NOW) % weekMs = 0 => weeklyPnl = prevRun.weeklyPnl

\* a second execution started one week after or before the first, with
\* buckets in two weeks
C9_Witness ==
    /\ pc = "built"
    /\ prevRun.run = 1
    /\ NOW # prevRun.NOW
    /\ (NOW - prevRun.NOW) % weekMs = 0
    /\ Len(weeklyPnl) = 2
    /\ Len(incomeTimeline) = 2

----------------------------------------------------------------------------
(* C10 *)

\* 1e-9, in units of 1e-12
Tolerance == R(1000)

\* C10: when the daily timeline has at least 2 buckets, the equity series
\* starts from balance - (sum of all daily amounts) and its last point is
\* the balance: in genEquityCurve with the balance of main, in initGrowth
\* with the balance and the daily amounts the report holds (RAW), and that
\* balance is the balance of main within 1e-9.
C10_LastPointIsBalance ==
    /\ (pc \in {"report", "growthReady"} /\ Len(incomeTimeline) >= 2) =>
          /\ Len(equityCurve.points) = Len(incomeTimeline)
          /\ equityCurve.startEquity =
                RSub(totalBalanceBtc, SumOf(DailyBtcAt, 1..Len(incomeTimeline)))
          /\ equityCurve.points[Len(equityCurve.points)].equity = totalBalanceBtc
    /\ (pc = "growthReady" /\ Len(RAW.dailyPnl) >= 2) =>
          /\ growth.startEquity =
                RSub(RAW.currentBtc,
                     SumOf([i \in 1..Len(RAW.dailyPnl) |-> RAW.dailyPnl[i].b],
                           1..Len(RAW.dailyPnl)))
          /\ growth.equityByDay[1] = growth.startEquity
          /\ growth.equityByDay[Len(growth.equityByDay)] = RAW.currentBtc
          /\ RLe(RAbs(RSub(RAW.currentBtc, totalBalanceBtc)), Tolerance)

\* three days with amounts that are not whole units, and a balance that
\* toFixed(10) rounds
C10_Witness ==
    /\ pc = "growthReady"
    /\ Len(incomeTimeline) = 3
    /\ \E i \in 1..3 : incomeTimeline[i].dailyBtc[2] # 1
    /\ RAW.currentBtc # totalBalanceBtc
    /\ Len(growth.equityByDay) = 4
    /\ growth.equityByDay[4] = RAW.currentBtc
    /\ equityCurve.points[3].equity = totalBalanceBtc
    /\ equityCurve.startEquity # totalBalanceBtc

----------------------------------------------------------------------------
(* C11 *)

\* the report has been generated from the timeline and the balance
Written == pc \in {"written", "open"}

\* the baseline: the balance less all the daily amounts
Baseline == RSub(totalBalanceBtc, SumOf(DailyBtcAt, 1..Len(incomeTimeline)))

\* equity[0..n] as the specification reconstructs it: the baseline, then the
\* baseline plus the daily amounts up to each day; index k stands for day k - 1
ClaimedEquity ==
    [k \in 1..(Len(incomeTimeline) + 1) |-> RAdd(Baseline, SumOf(DailyBtcAt, 1..(k - 1)))]

\* the equities genEquityCurve has put into its points
CurveEquities == [i \in 1..Len(equityCurve.points) |-> equityCurve.points[i].equity]

\* the share of the days with a positive amount
ClaimedWinRate ==
    RDiv(R(Cardinality({i \in 1..Len(incomeTimeline) : incomeTimeline[i].dailyBtc[1] > 0})),
         R(Len(incomeTimeline)))

\* C11: the equity series reconstructed for n daily amounts (n >= 2) has n + 1
\* points, the baseline first and the running sums after it, and the win
\* rate is the share of the days with a positive amount (daily amounts
\* 100, -200, 300 on a baseline of 200 give 200, 300, 100, 400 and 2/3).
C11_Original ==
    (Written /\ Len(incomeTimeline) >= 2) =>
        /\ Len(equityCurve.points) = Len(incomeTimeline) + 1
        /\ CurveEquities = ClaimedEquity
        /\ riskMetrics.winRate = ClaimedWinRate

----------------------------------------------------------------------------
(* C12 *)

\* the larger of two numbers
RMax(a, b) == IF RLt(a, b) THEN b ELSE a

\* runningPeak[i] = max(equity[0..i]); index k stands for day k - 1
RECURSIVE RunningPeak(_)
RunningPeak(k) ==
    IF k = 1 THEN ClaimedEquity[1] ELSE RMax(RunningPeak(k - 1), ClaimedEquity[k])

\* drawdown[i] = equity[i] - runningPeak[i]
ClaimedDrawdown ==
    [k \in 1..(Len(incomeTimeline) + 1) |-> RSub(ClaimedEquity[k], RunningPeak(k))]

\* min(drawdown)
ClaimedMaxDrawdown ==
    CHOOSE d \in {ClaimedDrawdown[k] : k \in 1..(Len(incomeTimeline) + 1)} :
        \A k \in 1..(Len(incomeTimeline) + 1) : RLe(d, ClaimedDrawdown[k])

\* C12: no drawdown is positive, and the maxDrawdownBtc of computeRiskMetrics
\* is the least drawdown[i] = equity[i] - max(equity[0..i]), so never positive.
C12_Original ==
    (Written /\ Len(incomeTimeline) >= 2) =>
        /\ \A k \in 1..(Len(incomeTimeline) + 1) : RLe(ClaimedDrawdown[k], Zero)
        /\ \A i \in 1..Len(drawdownChart) : RLe(drawdownChart[i].dd, Zero)
        /\ riskMetrics.maxDrawdownBtc = ClaimedMaxDrawdown
        /\ RLe(riskMetrics.maxDrawdownBtc, Zero)

----------------------------------------------------------------------------
(* C13 *)

\* the days at which the drawdown is deepest
DeepestDays ==
    {k \in 1..(Len(incomeTimeline) + 1) : ClaimedDrawdown[k] = ClaimedMaxDrawdown}

\* |maxDrawdown| / peak x 100 for the peak in force at day k, 0 if that peak
\* is not positive
ClaimedDrawdownPct(k) ==
    IF RLt(Zero, RunningPeak(k))
    THEN RMul(RDiv(RAbs(ClaimedMaxDrawdown), RunningPeak(k)), R(100))
    ELSE Zero

\* the equity is positive from the baseline on
EquityPositive == \A k \in 1..(Len(incomeTimeline) + 1) : RLt(Zero, ClaimedEquity[k])

\* C13: maxDrawdownPct is the deepest drawdown over the running peak in force
\* where it occurred, times 100, whatever peak the equity reaches later;
\* stated on the size of the percentage, for histories whose equity stays
\* positive and whose deepest drawdown computeRiskMetrics has found.
C13_Original ==
    (/\ Written /\ Len(incomeTimeline) >= 2
     /\ EquityPositive
     /\ riskMetrics.maxDrawdownBtc = RAbs(ClaimedMaxDrawdown)) =>
        \E k \in DeepestDays : RAbs(riskMetrics.maxDrawdownPct) = ClaimedDrawdownPct(k)

----------------------------------------------------------------------------
(* C14 *)

\* the days with a positive amount, and those with a negative one
ProfitableDays == {i \in 1..Len(incomeTimeline) : incomeTimeline[i].dailyBtc[1] > 0}

LosingDays == {i \in 1..Len(incomeTimeline) : incomeTimeline[i].dailyBtc[1] < 0}

\* the profit factor as the specification gives it
ClaimedProfitFactor ==
    IF LosingDays # {}
    THEN RDiv(SumOf(DailyBtcAt, ProfitableDays), RAbs(SumOf(DailyBtcAt, LosingDays)))
    ELSE IF ProfitableDays # {} THEN R(999) ELSE Zero

\* C14 as stated: profitFactor is (sum of the positive daily amounts) /
\* |sum of the negative ones| when a day lost, 999 when there is profit and
\* no loss, and 0 when there is neither, for every timeline.
C14_Original == Written => riskMetrics.profitFactor = ClaimedProfitFactor

\* C14: for a timeline of at least 2 daily buckets profitFactor is (sum of
\* the positive daily amounts) / |sum of the negative ones| when a day lost,
\* 999 when there is profit and no loss, and 0 when there is neither; for a
\* timeline of fewer than 2 buckets it is 0 whatever the day's amount.
C14_ProfitFactor ==
    Written =>
        riskMetrics.profitFactor =
            IF Len(incomeTimeline) >= 2 THEN ClaimedProfitFactor ELSE Zero

C14_Witness ==
    /\ Written
    /\ Len(incomeTimeline) = 2
    /\ LosingDays = {}
    /\ ProfitableDays # {}
    /\ riskMetrics.profitFactor = R(999)

----------------------------------------------------------------------------
(* C15 *)

\* dailyReturn[i] = dailyPnL[i] / equity at the start of day i, 0 if that
\* equity is not positive
ClaimedReturn ==
    [i \in 1..Len(incomeTimeline) |->
        IF RLt(Zero, ClaimedEquity[i]) THEN RDiv(DailyBtcAt[i], ClaimedEquity[i]) ELSE Zero]

\* the standard deviation of the daily returns is 0: they are all equal
ReturnsEqual == \A i \in 1..Len(incomeTimeline) : ClaimedReturn[i] = ClaimedReturn[1]

----------------------------------------------------------------------------
(* C16 *)

\* computeForecastData has run on the monthly buckets
Forecasted == pc \in {"forecast", "written", "open"}

MonthIndexes == 1..Len(monthlyPnl)

\* n, Sx, Sy, Sxx, Sxy of the monthly PnL against the month index 0..n-1
RegN == R(Len(monthlyPnl))

RegSx == SumOf([i \in MonthIndexes |-> R(i - 1)], MonthIndexes)

RegSy == SumOf(MonthlyBtcAt, MonthIndexes)

RegSxx == SumOf([i \in MonthIndexes |-> R((i - 1) * (i - 1))], MonthIndexes)

RegSxy == SumOf([i \in MonthIndexes |-> RMul(R(i - 1), MonthlyBtcAt[i])], MonthIndexes)

\* n * Sxx - Sx^2
RegDenominator == RSub(RMul(RegN, RegSxx), RMul(RegSx, RegSx))

ClaimedSlope == RDiv(RSub(RMul(RegN, RegSxy), RMul(RegSx, RegSy)), RegDenominator)

ClaimedIntercept == RDiv(RSub(RegSy, RMul(ClaimedSlope, RegSx)), RegN)

MonthsEqual == \A i \in MonthIndexes : MonthlyBtcAt[i] = MonthlyBtcAt[1]

\* C16: for n >= 2 monthly values the regression has slope
\* (n Sxy - Sx Sy) / (n Sxx - Sx^2), with a denominator that is not 0, and
\* intercept (Sy - slope Sx) / n; for n < 2 slope, intercept and r2 are 0;
\* r2 is 0 when all values are equal, and every figure is finite; monthly
\* PnL 100, 200, 300 gives slope 100, intercept 100 and average 200.
C16_Regression ==
    Forecasted =>
        /\ Len(monthlyPnl) >= 2 =>
              /\ RegDenominator # Zero
              /\ forecast.trend.slope = ClaimedSlope
              /\ forecast.trend.intercept = ClaimedIntercept
        /\ Len(monthlyPnl) < 2 =>
              forecast.trend = [slope |-> Zero, intercept |-> Zero, r2 |-> Zero]
        /\ MonthsEqual => forecast.trend.r2 = Zero
        /\ IsFinite(forecast.trend.slope) /\ IsFinite(forecast.trend.intercept)
        /\ IsFinite(forecast.trend.r2)
        /\ MonthlyBtcAt = <<R(100), R(200), R(300)>> =>
              /\ forecast.trend.slope = R(100)
              /\ forecast.trend.intercept = R(100)
              /\ forecast.avgMonthlyPnlBtc = R(200)

C16_Witness ==
    /\ Forecasted
    /\ MonthlyBtcAt = <<R(100), R(200), R(300)>>
    /\ forecast.trend = [slope |-> R(100), intercept |-> R(100), r2 |-> R(1)]

----------------------------------------------------------------------------
(* C17 *)

\* C17: the forecast's trendDirection is 'improving' exactly when the slope
\* of the regression is above 0, 'declining' exactly when it is below 0 and
\* 'flat' exactly when it is 0, which it is for fewer than 2 months.
C17_TrendDirection ==
    Forecasted =>
        /\ forecast.trendDirection = "improving" <=> forecast.trend.slope[1] > 0
        /\ forecast.trendDirection = "declining" <=> forecast.trend.slope[1] < 0
        /\ forecast.trendDirection = "flat" <=> forecast.trend.slope = Zero
        /\ Len(monthlyPnl) < 2 => forecast.trendDirection = "flat"

C17_Witness ==
    /\ Forecasted
    /\ Len(monthlyPnl) = 2
    /\ forecast.trend.slope = Zero
    /\ forecast.trendDirection = "flat"

----------------------------------------------------------------------------
(* C18 *)

\* the report is open and masterRecalc has run
Open == pc = "open"

\* the months of the report from the start date on, and their PnL
PageMonths == {i \in 1..Len(RAW.monthlyPnl) : RAW.monthlyPnl[i].t >= startDate}

PageMonthBtc == [i \in 1..Len(RAW.monthlyPnl) |-> RAW.monthlyPnl[i].b]

PageMean ==
    IF PageMonths = {} THEN Zero
    ELSE RDiv(SumOf(PageMonthBtc, PageMonths), R(Cardinality(PageMonths)))

\* the variance of the monthly PnL values of the page
PageVariance ==
    IF PageMonths = {} THEN Zero
    ELSE RDiv(SumOf([i \in 1..Len(RAW.monthlyPnl) |->
                        RMul(RSub(PageMonthBtc[i], PageMean), RSub(PageMonthBtc[i], PageMean))],
                    PageMonths),
              R(Cardinality(PageMonths)))

\* C18: the optimistic monthly PnL less the average one, and the average one
\* less the pessimistic one, are both the standard deviation of the monthly
\* PnL values (the non-negative root of their variance), so that
\* optimistic >= average >= pessimistic.
C18_Symmetric ==
    Open =>
        /\ SSub(scenarios[1].linPnl, scenarios[2].linPnl) = fc.stdDev
        /\ SSub(scenarios[2].linPnl, scenarios[3].linPnl) = fc.stdDev
        /\ scenarios[2].linPnl = SRat(PageMean)
        /\ SMul(fc.stdDev, fc.stdDev) = SRat(PageVariance)
        /\ ~SLt(fc.stdDev, SZero)
        /\ ~SLt(scenarios[1].linPnl, scenarios[2].linPnl)
        /\ ~SLt(scenarios[2].linPnl, scenarios[3].linPnl)

C18_Witness ==
    /\ Open
    /\ Cardinality(PageMonths) = 3
    /\ ~SIsRat(fc.stdDev)
    /\ SLt(scenarios[3].linPnl, SZero)
    /\ SLt(SZero, scenarios[2].linPnl)

----------------------------------------------------------------------------
(* C19 *)

\* x to the power n
RECURSIVE SPow(_, _)
SPow(x, n) == IF n = 0 THEN SRat(R(1)) ELSE SMul(SPow(x, n - 1), x)

\* currentBalance + m x scenarioPnL
ClaimedLinear(i) ==
    SAdd(SRat(fc.currentBtc), SMul(SRat(R(Months(fcMonths))), scenarios[i].linPnl))

\* currentBalance x (1 + scenarioPnL / currentBalance)^m
ClaimedCompound(i) ==
    SMul(SRat(fc.currentBtc),
         SPow(SAdd(SRat(R(1)), SDiv(scenarios[i].linPnl, SRat(fc.currentBtc))),
              Months(fcMonths)))

\* C19 as stated: for every scenario and month count the simple final balance
\* is currentBalance + m x scenarioPnL and the compound one is
\* currentBalance x (1 + scenarioPnL / currentBalance)^m (stated where the
\* balance is not 0), and the two are equal for m = 1 and a positive balance.
C19_Original ==
    (Open /\ fc.currentBtc # Zero) =>
        \A i \in 1..3 :
            /\ scenarios[i].linBtc = ClaimedLinear(i)
            /\ scenarios[i].compBtc = ClaimedCompound(i)
            /\ (Months(fcMonths) = 1 /\ RLt(Zero, fc.currentBtc)) =>
                  scenarios[i].linBtc = scenarios[i].compBtc

\* C19: for every scenario and month count m >= 1 the simple final balance
\* is currentBalance + m x scenarioPnL; the compound one is
\* currentBalance x (1 + scenarioPnL / currentBalance)^m when the balance is
\* positive and the balance itself when it is 0 or negative; the two are
\* equal for m = 1 and a positive balance.
C19_Projections ==
    Open =>
        /\ Len(scenarios) = 3
        /\ Months(fcMonths) >= 1
        /\ \A i \in 1..3 :
              /\ scenarios[i].linBtc = ClaimedLinear(i)
              /\ RLt(Zero, fc.currentBtc) => scenarios[i].compBtc = ClaimedCompound(i)
              /\ ~RLt(Zero, fc.currentBtc) => scenarios[i].compBtc = SRat(fc.currentBtc)
              /\ (Months(fcMonths) = 1 /\ RLt(Zero, fc.currentBtc)) =>
                    scenarios[i].linBtc = scenarios[i].compBtc

C19_Witness ==
    /\ Open
    /\ Months(fcMonths) = 3
    /\ RLt(Zero, fc.currentBtc)
    /\ ~SIsRat(fc.stdDev)
    /\ scenarios[1].compBtc # scenarios[1].linBtc
    /\ scenarios[1].compBtc = ClaimedCompound(1)

----------------------------------------------------------------------------
(* C20 *)

\* C20: with an empty income input the daily, weekly and monthly bucket
\* sequences are empty, the forecast has average 0, standard deviation 0,
\* slope 0, intercept 0 and direction 'flat', and the risk metrics are the
\* neutral object.
C20_EmptyIncome ==
    income = <<>> =>
        /\ pc # "timeline" => incomeTimeline = <<>>
        /\ pc \notin {"timeline", "weekly"} => weeklyPnl = <<>>
        /\ pc \notin {"timeline", "weekly", "monthly"} => monthlyPnl = <<>>
        /\ Forecasted =>
              /\ forecast.avgMonthlyPnlBtc = Zero
              /\ forecast.stdDev = SZero
              /\ forecast.trend.slope = Zero
              /\ forecast.trend.intercept = Zero
              /\ forecast.trendDirection = "flat"
        /\ Written => riskMetrics = NeutralRisk

C20_Witness ==
    /\ income = <<>>
    /\ pc = "written"
    /\ totalBalanceBtc = R(250)
    /\ forecast.trendDirection = "flat"
    /\ forecast.currentBtc = R(250)

----------------------------------------------------------------------------
(* C21 *)

\* a deposit no rate converts: not in BTC, no candle and no spot price
C21_DepositUnconvertible(d) ==
    d.coin # "BTC" /\ ~Truthy(DepositPrice(d, dailyPrices, btcPrice))

\* a withdrawal no rate converts: toBtc finds no route for its coin
C21_WithdrawalUnconvertible(w) ==
    /\ w.coin # "BTC"
    /\ IF w.coin \in stables THEN ~RateUsable(priceMap, "BTC", "USDT")
       ELSE /\ ~RateUsable(priceMap, w.coin, "BTC")
            /\ ~(RateUsable(priceMap, w.coin, "USDT") /\ RateUsable(priceMap, "BTC", "USDT"))

\* C21 as stated, for deposits and withdrawals: a missing price never yields
\* a value that is not a finite number; an event no rate converts counts
\* exactly 0 BTC and carries an 'unconvertible' marker.
C21_Original ==
    pc = "capitalDone" =>
        /\ IsFinite(totalDepositsBtc) /\ IsFinite(totalWithdrawalsBtc)
        /\ \A i \in 1..Len(depositDetails) :
              /\ IsFinite(depositDetails[i].btcValue)
              /\ C21_DepositUnconvertible(deposits[i]) =>
                    /\ depositDetails[i].btcValue = Zero
                    /\ "unconvertible" \in DOMAIN depositDetails[i]
        /\ \A i \in 1..Len(withdrawalDetails) :
              /\ IsFinite(withdrawalDetails[i].btcValue)
              /\ C21_WithdrawalUnconvertible(withdrawals[i]) =>
                    /\ withdrawalDetails[i].btcValue = Zero
                    /\ "unconvertible" \in DOMAIN withdrawalDetails[i]

----------------------------------------------------------------------------
(* C22 *)

\* current portfolio (BTC) - external deposits (BTC)
ClaimedRobotPnl == RSub(totalBalanceBtc, totalDepositsBtc)

\* C22 as stated: the robot P&L of main and the robot P&L on the card of the
\* opened report both equal the current portfolio minus the external
\* deposits, whatever the withdrawals and the start date.
C22_Original ==
    Open => /\ robotPnlBtc = ClaimedRobotPnl
            /\ cards.robotPnl = ClaimedRobotPnl

----------------------------------------------------------------------------
(* C23 *)

\* the records of the period the server holds
HeldInPeriod == {i \in 1..Len(server) : server[i].time >= START_TIME}

\* how often record r is in the list getFuturesIncome returns
TimesReturned(r) == Cardinality({j \in 1..Len(income) : income[j] = r})

\* getFuturesIncome has returned, and every response was an array
IncomeReturned == pc = "returned" /\ retryPc = "returned" /\ retryValue.isArray

\* C23 as stated: every record the server holds with time >= START_TIME is in
\* the returned list exactly once, whatever the number of pages, also when
\* records share the timestamp of the last record of a full page.
C23_Original ==
    IncomeReturned => \A i \in HeldInPeriod : TimesReturned(server[i]) = 1


----------------------------------------------------------------------------
(* C24 *)

\* a step that leaves the income array, the price samples and every bucket
\* sequence that is already built as they were
C24_Step ==
    /\ income' = income
    /\ dailyPrices' = dailyPrices
    /\ (pc # "timeline" => incomeTimeline' = incomeTimeline)
    /\ (pc # "weekly" => weeklyPnl' = weeklyPnl)
    /\ (pc # "monthly" => monthlyPnl' = monthlyPnl)

----------------------------------------------------------------------------
(* C25 *)

\* the calls of fn so far, the one that has not settled yet included
C25_Calls == Len(fnCalls) + (IF retryPc = "call" THEN 1 ELSE 0)

\* the wait the claim gives after failure number i
C25_Wait(i) ==
    IF fnCalls[i].err.message \in RateLimitMessages THEN 65000 ELSE 1000 * Pow2(i - 1)

\* C25: withRetry(fn, maxAttempts) calls fn at most maxAttempts times; a
\* successful call is the last one and its value is returned; after
\* maxAttempts failures in a row the error of the last attempt is thrown; it
\* waits after each failure but the final one, 65000 ms after a rate-limit
\* error and 1000 * 2^(attempt - 1) ms otherwise
C25_WithRetry ==
    retryPc # "idle" =>
        /\ C25_Calls <= IF maxAttempts > 0 THEN maxAttempts ELSE 0
        /\ \A i \in 1..(Len(fnCalls) - 1) : ~fnCalls[i].ok
        /\ (Len(fnCalls) > 0 /\ fnCalls[Len(fnCalls)].ok) <=> retryPc = "returned"
        /\ retryPc = "returned" => retryValue = fnCalls[Len(fnCalls)].value
        /\ retryPc = "thrown" =>
               /\ Len(fnCalls) = maxAttempts
               /\ maxAttempts > 0 => retryValue = fnCalls[maxAttempts].err
        /\ (Len(fnCalls) = maxAttempts /\ maxAttempts > 0 /\ ~fnCalls[maxAttempts].ok)
               => retryPc = "thrown"
        /\ LET failed == {i \in 1..Len(fnCalls) : ~fnCalls[i].ok /\ i < maxAttempts}
           IN  /\ Len(sleeps) = Cardinality(failed)
               /\ \A i \in failed : sleeps[i] = C25_Wait(i)

\* three attempts have failed, the second by the rate limit: two waits, and
\* the timeout of the third attempt is thrown
C25_Witness ==
    /\ retryPc = "thrown"
    /\ maxAttempts = REQUEST_RETRIES
    /\ Len(fnCalls) = 3
    /\ fnCalls[2] = Threw("Too many requests")
    /\ sleeps = <<1000, 65000>>
    /\ retryValue = [message |-> "FAPI request timeout"]


----------------------------------------------------------------------------
(* C26 *)

\* min(dd) over the points of genDrawdownChart
DeepestPoint ==
    CHOOSE d \in {drawdownChart[i].dd : i \in 1..Len(drawdownChart)} :
        \A i \in 1..Len(drawdownChart) : RLe(d, drawdownChart[i].dd)

\* C26: for the same timeline and balance, the maximum drawdown of
\* computeRiskMetrics is the depth of the deepest point of the series of
\* genDrawdownChart, maxDrawdownBtc = -min(dd), also when the first day is a
\* loss from the starting equity and when the equity is never positive.
C26_Original ==
    (Written /\ Len(incomeTimeline) >= 2) =>
        riskMetrics.maxDrawdownBtc = RNeg(DeepestPoint)


----------------------------------------------------------------------------
(* C27 *)

\* C27: when the card and the forecast are computed from the same list of
\* monthly values (the start date keeps every month), the trend direction on
\* the summary card of masterRecalc is forecast.trendDirection of
\* computeForecastData, for every slope, small ones too.
C27_Original ==
    (pc = "open" /\ Cardinality(PageMonths) = Len(monthlyPnl)) =>
        cards.trendDir = forecast.trendDirection


----------------------------------------------------------------------------
(* C28 *)

\* no event of the call can come any more: the request is closed and the
\* timer is not pending
RequestOver == req = "closed" /\ timer # "pending"

\* C28: a call of fapiRequest settles exactly once and always eventually: the
\* promise takes the first call of resolve or reject and keeps it, it resolves
\* with the response body or rejects with the API error, a network error or
\* the timeout, and once every event of the request has come it is settled.
C28_Original ==
    pc = "requested" =>
        /\ settles = <<>> => promise.state = "pending"
        /\ settles # <<>> =>
               /\ promise.state = IF settles[1].call = "resolve" THEN "resolved" ELSE "rejected"
               /\ promise.value = settles[1].value
               /\ promise.reason = settles[1].reason
        /\ promise.state = "resolved" =>
               promise.value = JsonParse(body) /\ ~IsApiError(promise.value)
        /\ promise.state = "rejected" =>
               promise.reason \in NetworkErrors \cup {"FAPI request timeout",
                   "Too many requests.", "Binance API error -2015"}
        /\ RequestOver => promise.state \in {"resolved", "rejected"}


----------------------------------------------------------------------------
(* C29 *)

\* the batch the loop has just looked at ends it
C29_Ending ==
    \/ ~retryValue.isArray
    \/ Len(retryValue.items) = 0
    \/ Len(retryValue.items) < PageLimit
    \/ retryValue.items[Len(retryValue.items)].time >= NOW

\* where the loop stands agrees with the claim: it has stopped at a batch
\* that ends it, it goes on only after a batch that does not, with a
\* startTime above the one just requested, and the requests so far have
\* strictly increasing startTimes
C29_Loop ==
    /\ \A i, j \in 1..Len(requested) : i < j => requested[i] < requested[j]
    /\ pc = "returned" => C29_Ending
    /\ pc = "pause" =>
           /\ ~C29_Ending
           /\ startTime > requested[Len(requested)]
           /\ Len(requested) < MaxRequests

\* C29: getFuturesIncome terminates when each request succeeds or exhausts
\* its retries in the end: the loop stops at the first batch that is not an
\* array, is empty, is shorter than a page or ends at or after NOW, and
\* otherwise asks for a startTime strictly above the previous one, so that no
\* page is requested twice
C29_Terminates == []C29_Loop /\ <>(pc \in {"returned", "thrown"})

\* three pages have been requested, after retries, and the call has returned
C29_Witness ==
    /\ pc = "returned"
    /\ Len(requested) = 3
    /\ Len(income) = 5
    /\ Len(fnCalls) >= 2


----------------------------------------------------------------------------
(* C30 *)

\* the day on display is one of the report's, and at most one tick is pending
C30_Bounded == slider \in 0..N /\ Cardinality(timers) <= 1

\* what a tick does to the display: while playing it shows the next day, or
\* ends playback when there is none (playing = false, label 'Play'); when
\* paused it shows nothing new
C30_TickStep ==
    Tick =>
        IF ~playing THEN slider' = slider /\ playing' = FALSE
        ELSE IF slider + 1 > N
             THEN playing' = FALSE /\ playLabel' = "Play" /\ slider' = slider
             ELSE slider' = slider + 1

\* C30: under any interleaving of Play and Pause clicks, slider inputs,
\* timeline clicks and ticks, the day index on display stays within 0..N and
\* at most one tick timer is pending; while playing each tick advances the
\* index by exactly 1, playback stops itself when the index would exceed N,
\* and after Pause no tick changes the display
C30_Original == [](pc = "player" => C30_Bounded) /\ [][C30_TickStep]_vars

====
